---------------------------- MODULE Spec2Model ----------------------------
(***************************************************************************)
(* Movies / characters / users CRUD backend (FastAPI + SQLAlchemy on       *)
(* SQLite) with JWT bearer tokens and a websocket notification registry.   *)
(*                                                                         *)
(* The three tables are functions from the rowid (primary key) to the row. *)
(* EntitiesRepo's methods are operators on tables that return the HTTP     *)
(* status, the table after the call and the returned value; the actions    *)
(* of Spec call them directly (as the repository is called by its users),  *)
(* the actions of SpecApi are the route handlers of main.py.               *)
(***************************************************************************)
EXTENDS Integers, Sequences, FiniteSets, TLC

(***************************************************************************)
(* Bounds of the model.                                                    *)
(***************************************************************************)
MaxId == 2          \* largest rowid a table hands out
MaxMovies == 2      \* movies stored while the other tables are empty
MaxRows == 1        \* rows stored over the three tables otherwise
MaxUsers == 1       \* users stored, in the specifications of the routes
MaxBatch == 2       \* length of a bulk request
MaxConns == 3       \* websocket clients
MaxTokens == 1      \* tokens handed out by login
MaxTime == 31       \* minutes on the clock
MaxTasks == 2       \* requests in flight at a time
MaxSending == 1     \* of which inside notify_clients
MaxPage == 3        \* largest skip and limit of a listing

(***************************************************************************)
(* Program constants.                                                      *)
(***************************************************************************)
ACCESS_TOKEN_EXPIRE_MINUTES == 30
DefaultExpireMinutes == 15
ListLimit == 1000
RepeatCount == 5

SECRET_KEY == "09d25e09"
ForgedKey == "not-the-secret"

OK == 200
Conflict == 400
Unauthorized == 401
NotFound == 404
ServerError == 500
\* no response: the call does not return
Diverges == 0

(***************************************************************************)
(* Values.  Python's None for an Optional[int] is 0 (rowids start at 1),   *)
(* None for an absent row or value is the record Nothing.                  *)
(***************************************************************************)
None == 0
Nothing == [none |-> TRUE]

\* a returned list, a returned flag, a request body that is a list: each
\* is a record of its own, so that any two of these values can be compared
List(seq) == [list |-> seq]
Flag(b) == [flag |-> b]

Max(S) == CHOOSE x \in S : \A y \in S : y <= x

\* the ids of a table in ascending order: the order of a scan of the table
RECURSIVE SortedIds(_)
SortedIds(S) ==
    IF S = {} THEN <<>>
    ELSE LET m == CHOOSE x \in S : \A y \in S : x <= y
         IN <<m>> \o SortedIds(S \ {m})

Range(s) == {s[i] : i \in DOMAIN s}

\* the sequences over S of length at most n
SeqUpTo(S, n) == UNION {[1..k -> S] : k \in 0..n}

(***************************************************************************)
(* Request bodies (schemas.py).  The fields of a movie other than its name *)
(* vary together, in two variants; one description is a numeric string.    *)
(***************************************************************************)
MovieNames == {"Matrix", "Matrix 2"}

MovieBase(name, v) ==
    IF v = 1
    THEN [name |-> name, year |-> 1999, duration |-> "2h 16m", genre |-> "Action",
          description |-> "A plot", nrCharacters |-> 0, editorId |-> None]
    ELSE [name |-> name, year |-> 2009, duration |-> "1h 36m", genre |-> "Animation",
          description |-> "007", nrCharacters |-> 2, editorId |-> 1]

MovieInputs == {MovieBase(n, v) : n \in MovieNames, v \in {1, 2}}

\* bulk requests: the movies of one request share the variant
MovieBatches ==
    UNION {{[i \in DOMAIN ns |-> MovieBase(ns[i], v)] : ns \in SeqUpTo(MovieNames, MaxBatch)}
           : v \in {1, 2}}

\* the fields of a character vary together, in two variants
CharacterBase(v) ==
    IF v = 1
    THEN [name |-> "Neo", movieName |-> "Matrix", description |-> "The One", editorId |-> None]
    ELSE [name |-> "Smith", movieName |-> "Matrix 2", description |-> "42", editorId |-> 1]

CharacterInputs == {CharacterBase(v) : v \in {1, 2}}

CharacterBatches == SeqUpTo(CharacterInputs, MaxBatch)

Usernames == {"admin", "bob"}
Passwords == {"pw", "hunter2"}
Salts == {"s1"}

Ids == 1..(MaxId + 1)

VARIABLES
    movies,              \* table movies3: id -> row
    characters,          \* table characters: id -> row
    users,               \* table users: id -> row
    active_connections,  \* main.py: the registry, a list of websockets
    alive,               \* the websockets whose peer is still there
    now,                 \* datetime.utcnow(), in minutes
    issued,              \* the tokens login has handed out
    result,              \* the last call and its response
    sockets,             \* the state of each websocket, as the server has it
    tasks,               \* the requests in flight: handlers at an await
    generation_count,    \* main.py: the global generation_count
    scheduled            \* the calls that wait to run: background tasks, timers

vars == <<movies, characters, users, active_connections, alive, now, issued, result,
          sockets, tasks, generation_count, scheduled>>


(***************************************************************************)
(* The database (models.py, database.py: SQLite).                          *)
(***************************************************************************)
EmptyTable == [id \in {} |-> Nothing]

\* id = Column(Integer, primary_key=True) on SQLite: the rowid, one more
\* than the largest rowid in the table (a deleted largest id is handed out
\* again)
NextId(tbl) == IF DOMAIN tbl = {} THEN 1 ELSE Max(DOMAIN tbl) + 1

Insert(tbl, row) ==
    [id \in DOMAIN tbl \cup {NextId(tbl)} |-> IF id \in DOMAIN tbl THEN tbl[id] ELSE row]

Remove(tbl, id) == [i \in DOMAIN tbl \ {id} |-> tbl[i]]

\* a row as the ORM object returned to the caller: its columns and its id
WithId(tbl, id) == [id |-> id, row |-> tbl[id]]

\* the rows of a table in scan order
Scan(tbl) == LET ids == SortedIds(DOMAIN tbl) IN [i \in DOMAIN ids |-> WithId(tbl, ids[i])]

\* query.filter(...).first(): the id of the first row that matches, or None
First(tbl, Match(_)) ==
    LET hits == {id \in DOMAIN tbl : Match(tbl[id])}
    IN IF hits = {} THEN None ELSE CHOOSE id \in hits : \A j \in hits : id <= j

\* A column declared Integer has INTEGER affinity: SQLite stores a text
\* that is a well-formed integer literal as the integer, which reads back
\* as the number ("007" comes back as 7); any other text is kept as it is.
\* The value is given by its decimal rendering.
IntegerAffinity(text) ==
    CASE text = "007" -> "7"
      [] text = "42" -> "42"
      [] OTHER -> text

\* a String column keeps the text
TextAffinity(text) == text

\* Movie(**movie.dict()) as it is stored: description = Column(Integer)
MovieRow(m) ==
    [name |-> TextAffinity(m.name), year |-> m.year, duration |-> TextAffinity(m.duration),
     genre |-> TextAffinity(m.genre), description |-> IntegerAffinity(m.description),
     nrCharacters |-> m.nrCharacters, editorId |-> m.editorId]

\* Character(**character.dict()) as it is stored: every text column is String
CharacterRow(c) ==
    [name |-> TextAffinity(c.name), movieName |-> TextAffinity(c.movieName),
     description |-> TextAffinity(c.description), editorId |-> c.editorId]

\* name = Column(String, unique=True): the commit of a table in which two
\* rows share a name raises IntegrityError
UniqueNames(tbl) == \A i, j \in DOMAIN tbl : tbl[i].name = tbl[j].name => i = j

Reply(status, tbl, ret) == [status |-> status, table |-> tbl, ret |-> ret]

(***************************************************************************)
(* EntitiesRepo: movies.                                                   *)
(***************************************************************************)
get_movie(tbl, movie_id) ==
    IF movie_id \notin DOMAIN tbl
    THEN Reply(NotFound, tbl, Nothing)
    ELSE Reply(OK, tbl, WithId(tbl, movie_id))

\* add_movie without the lookup of the name
add_movie_unchecked(tbl, movie) ==
    LET after == Insert(tbl, MovieRow(movie))
    IN Reply(OK, after, WithId(after, NextId(tbl)))

add_movie(tbl, movie) ==
    IF First(tbl, LAMBDA r : r.name = movie.name) # None
    THEN Reply(Conflict, tbl, Nothing)
    ELSE LET after == Insert(tbl, MovieRow(movie))
         IN Reply(OK, after, WithId(after, NextId(tbl)))

\* the loop of add_movies over the rest of the request
RECURSIVE add_movies_loop(_, _, _, _)
add_movies_loop(tbl, rest, added, not_added) ==
    IF rest = <<>>
    THEN Reply(OK, tbl, [added_movies |-> added, not_added_movies |-> not_added])
    ELSE LET movie == Head(rest)
         IN IF First(tbl, LAMBDA r : r.name = movie.name) # None
            THEN add_movies_loop(tbl, Tail(rest), added, Append(not_added, movie))
            ELSE add_movies_loop(Insert(tbl, MovieRow(movie)), Tail(rest),
                                 Append(added, movie), not_added)

\* add_movies that gives up at the first duplicate: break instead of continue
RECURSIVE add_movies_break(_, _, _, _)
add_movies_break(tbl, rest, added, not_added) ==
    IF rest = <<>>
    THEN Reply(OK, tbl, [added_movies |-> added, not_added_movies |-> not_added])
    ELSE LET movie == Head(rest)
         IN IF First(tbl, LAMBDA r : r.name = movie.name) # None
            THEN Reply(OK, tbl, [added_movies |-> added,
                                 not_added_movies |-> Append(not_added, movie)])
            ELSE add_movies_break(Insert(tbl, MovieRow(movie)), Tail(rest),
                                  Append(added, movie), not_added)

add_movies_stops_at_duplicate(tbl, batch) == add_movies_break(tbl, batch, <<>>, <<>>)

add_movies(tbl, batch) == add_movies_loop(tbl, batch, <<>>, <<>>)

\* update_movie that sets every field of the body, the aggregate fields too
MovieReplaced(row, movie) == MovieRow(movie)

\* the fields update_movie sets: all but nrCharacters and editorId
MovieUpdated(row, movie) ==
    [row EXCEPT !.name = TextAffinity(movie.name), !.year = movie.year,
                !.duration = TextAffinity(movie.duration), !.genre = TextAffinity(movie.genre),
                !.description = IntegerAffinity(movie.description)]

\* update_movie on a name column that is not unique
update_movie_not_unique(tbl, movie_id, movie) ==
    IF movie_id \notin DOMAIN tbl
    THEN Reply(NotFound, tbl, Nothing)
    ELSE LET after == [tbl EXCEPT ![movie_id] = MovieUpdated(tbl[movie_id], movie)]
         IN Reply(OK, after, WithId(after, movie_id))

update_movie(tbl, movie_id, movie) ==
    IF movie_id \notin DOMAIN tbl
    THEN Reply(NotFound, tbl, Nothing)
    ELSE LET after == [tbl EXCEPT ![movie_id] = MovieUpdated(tbl[movie_id], movie)]
         IN IF UniqueNames(after)
            THEN Reply(OK, after, WithId(after, movie_id))
            ELSE Reply(ServerError, tbl, Nothing)

\* delete_movie_by_id that answers 200 for an id that is absent
delete_movie_by_id_idempotent(tbl, movie_id) ==
    IF movie_id \notin DOMAIN tbl
    THEN Reply(OK, tbl, Nothing)
    ELSE Reply(OK, Remove(tbl, movie_id), Nothing)

delete_movie_by_id(tbl, movie_id) ==
    IF movie_id \notin DOMAIN tbl
    THEN Reply(NotFound, tbl, Nothing)
    ELSE Reply(OK, Remove(tbl, movie_id), Nothing)

delete_movie_by_name(tbl, movie_name) ==
    LET id == First(tbl, LAMBDA r : r.name = movie_name)
    IN IF id = None
       THEN Reply(NotFound, tbl, Nothing)
       ELSE Reply(OK, Remove(tbl, id), Nothing)

\* movie_names.count(name)
Count(names, name) == Cardinality({i \in DOMAIN names : names[i] = name})

\* movie_names.remove(name): without the first occurrence
RemoveFirst(names, name) ==
    LET k == CHOOSE i \in DOMAIN names : names[i] = name /\ \A j \in 1..(i - 1) : names[j] # name
    IN SubSeq(names, 1, k - 1) \o SubSeq(names, k + 1, Len(names))

\* the loop of delete_duplicates over the rest of the scan
RECURSIVE delete_duplicates_loop(_, _, _, _)
delete_duplicates_loop(tbl, rest, movie_names, deleted_movies) ==
    IF rest = <<>>
    THEN Reply(OK, tbl, List(deleted_movies))
    ELSE LET movie == Head(rest)
         IN IF Count(movie_names, movie.row.name) > 1
            THEN delete_duplicates_loop(Remove(tbl, movie.id), Tail(rest),
                                        RemoveFirst(movie_names, movie.row.name),
                                        Append(deleted_movies, movie))
            ELSE delete_duplicates_loop(tbl, Tail(rest), movie_names, deleted_movies)

\* the loop of delete_duplicates without movie_names.remove(movie.name)
RECURSIVE delete_every_copy_loop(_, _, _, _)
delete_every_copy_loop(tbl, rest, movie_names, deleted_movies) ==
    IF rest = <<>>
    THEN Reply(OK, tbl, List(deleted_movies))
    ELSE LET movie == Head(rest)
         IN IF Count(movie_names, movie.row.name) > 1
            THEN delete_every_copy_loop(Remove(tbl, movie.id), Tail(rest), movie_names,
                                        Append(deleted_movies, movie))
            ELSE delete_every_copy_loop(tbl, Tail(rest), movie_names, deleted_movies)

\* delete_duplicates that deletes every movie of a name that is stored twice
delete_duplicates_every_copy(tbl) ==
    LET all == Scan(tbl)
    IN delete_every_copy_loop(tbl, all, [i \in DOMAIN all |-> all[i].row.name], <<>>)

delete_duplicates(tbl) ==
    LET all == Scan(tbl)
    IN delete_duplicates_loop(tbl, all, [i \in DOMAIN all |-> all[i].row.name], <<>>)

\* get_movies_names: the names of all movies, in scan order
get_movies_names(tbl) == LET all == Scan(tbl) IN [i \in DOMAIN all |-> all[i].row.name]

\* the candidate generate_and_add_movies makes of a name: " 2" is appended
\* to a name that does not end in a digit, the last digit is replaced by
\* the number after it otherwise ("Matrix 9" becomes "Matrix 10", "Matrix
\* 10" becomes "Matrix 11")
NewName(name) ==
    CASE name = "Matrix" -> "Matrix 2"
      [] name = "Matrix 2" -> "Matrix 3"
      [] name = "Matrix 3" -> "Matrix 4"
      [] name = "Matrix 4" -> "Matrix 5"
      [] name = "Matrix 5" -> "Matrix 6"
      [] name = "Matrix 6" -> "Matrix 7"
      [] name = "Matrix 7" -> "Matrix 8"
      [] name = "Matrix 8" -> "Matrix 9"
      [] name = "Matrix 9" -> "Matrix 10"
      [] name = "Matrix 10" -> "Matrix 11"
      [] OTHER -> "Matrix 12"

\* the movie generate_and_add_movies makes of a name; the year is random
GeneratedYears == {1950, 2022}

GeneratedMovie(name, year) ==
    [name |-> name, year |-> year, duration |-> "1h 0m", genre |-> "Drama",
     description |-> "Generated Description", nrCharacters |-> 0, editorId |-> None]

\* generate_and_add_movies: the outcomes it can have.  movie_names is read
\* once, at the start; each turn of "while True" takes a random name of it
\* and leaves the loop when the candidate of that name is not stored.  With
\* no name to choose from random.choice raises; with every candidate stored
\* the loop never ends (Diverges), the movies added before staying stored.
RECURSIVE generate_loop(_, _, _, _)
generate_loop(tbl, movie_names, count, movies_added) ==
    IF count = 0
    THEN {Reply(OK, tbl, List(movies_added))}
    ELSE IF movie_names = <<>>
         THEN {Reply(ServerError, tbl, Nothing)}
         ELSE LET stored == Range(get_movies_names(tbl))
                  free == {NewName(n) : n \in Range(movie_names)} \ stored
              IN IF free = {}
                 THEN {Reply(Diverges, tbl, Nothing)}
                 ELSE UNION {generate_loop(add_movie(tbl, GeneratedMovie(n, y)).table,
                                           movie_names, count - 1,
                                           Append(movies_added, GeneratedMovie(n, y)))
                             : n \in free, y \in GeneratedYears}

generate_and_add_movies(tbl, count) ==
    generate_loop(tbl, get_movies_names(tbl), count, <<>>)

(***************************************************************************)
(* EntitiesRepo: characters.                                               *)
(***************************************************************************)
get_character(tbl, character_id) ==
    IF character_id \notin DOMAIN tbl
    THEN Reply(NotFound, tbl, Nothing)
    ELSE Reply(OK, tbl, WithId(tbl, character_id))

add_character(tbl, character) ==
    LET after == Insert(tbl, CharacterRow(character))
    IN Reply(OK, after, WithId(after, NextId(tbl)))

\* db.add_all(db_characters): the rows are inserted in the order of the list
RECURSIVE add_all(_, _, _)
add_all(tbl, rest, added) ==
    IF rest = <<>>
    THEN Reply(OK, tbl, List(added))
    ELSE LET after == Insert(tbl, CharacterRow(Head(rest)))
         IN add_all(after, Tail(rest), Append(added, WithId(after, NextId(tbl))))

add_characters(tbl, batch) == add_all(tbl, batch, <<>>)

\* the fields update_character sets: all but editorId
CharacterUpdated(row, character) ==
    [row EXCEPT !.name = TextAffinity(character.name),
                !.movieName = TextAffinity(character.movieName),
                !.description = TextAffinity(character.description)]

\* update_character that stores the character when the id is absent
update_character_upsert(tbl, character_id, character) ==
    IF character_id \notin DOMAIN tbl
    THEN LET after == Insert(tbl, CharacterRow(character))
         IN Reply(OK, after, WithId(after, NextId(tbl)))
    ELSE LET after == [tbl EXCEPT ![character_id] = CharacterUpdated(tbl[character_id], character)]
         IN Reply(OK, after, WithId(after, character_id))

update_character(tbl, character_id, character) ==
    IF character_id \notin DOMAIN tbl
    THEN Reply(NotFound, tbl, Nothing)
    ELSE LET after == [tbl EXCEPT ![character_id] = CharacterUpdated(tbl[character_id], character)]
         IN Reply(OK, after, WithId(after, character_id))

delete_character(tbl, character_id) ==
    IF character_id \notin DOMAIN tbl
    THEN Reply(NotFound, tbl, Nothing)
    ELSE Reply(OK, Remove(tbl, character_id), Nothing)

(***************************************************************************)
(* Credentials (auth_token.py).  A bcrypt hash is the salt and the         *)
(* password it was made from; a token is its claims and the key that       *)
(* signed it.                                                              *)
(***************************************************************************)
get_password_hash(password, salt) == [salt |-> salt, of |-> password]

verify_password(plain_password, hashed_password) == hashed_password.of = plain_password

NoToken == [sub |-> "", exp |-> 0, key |-> "none"]

\* expires_delta = None is the delta None (0): "if expires_delta:" is false
\* for both
create_access_token(data, expires_delta, utcnow) ==
    [sub |-> data.sub,
     exp |-> IF expires_delta # None
             THEN utcnow + expires_delta
             ELSE utcnow + DefaultExpireMinutes,
     key |-> SECRET_KEY]

\* decode_access_token that does not look at the expiry
decode_access_token_no_expiry(token, utcnow) ==
    IF token.key = SECRET_KEY
    THEN [status |-> OK, payload |-> [sub |-> token.sub, exp |-> token.exp]]
    ELSE [status |-> Unauthorized, payload |-> Nothing]

\* jwt.decode: the signature, then the expiry (expired when exp < now);
\* a JWTError becomes the 401 raised by decode_access_token
decode_access_token(token, utcnow) ==
    IF token.key = SECRET_KEY /\ ~(token.exp < utcnow)
    THEN [status |-> OK, payload |-> [sub |-> token.sub, exp |-> token.exp]]
    ELSE [status |-> Unauthorized, payload |-> Nothing]

\* verify_token: its own check of the payload never fails, decode raises
verify_token(token, utcnow) == decode_access_token(token, utcnow).status

\* verify_admin_token that also asks for the subject to be a stored user
verify_admin_token_stored_subject(token, utcnow) ==
    LET decoded == decode_access_token(token, utcnow)
    IN IF decoded.status # OK
       THEN decoded.status
       ELSE IF decoded.payload.sub # "admin" THEN Unauthorized
            ELSE IF \A id \in DOMAIN users : users[id].username # decoded.payload.sub
                 THEN Unauthorized
                 ELSE OK

\* verify_admin_token without the comparison of the subject
verify_admin_token_any_subject(token, utcnow) == decode_access_token(token, utcnow).status

verify_admin_token(token, utcnow) ==
    LET decoded == decode_access_token(token, utcnow)
    IN IF decoded.status # OK
       THEN decoded.status
       ELSE IF decoded.payload.sub # "admin" THEN Unauthorized ELSE OK

(***************************************************************************)
(* EntitiesRepo: users.                                                    *)
(***************************************************************************)
UserRow(username, hashedPassword) ==
    [username |-> username, hashedPassword |-> hashedPassword,
     nrMovies |-> 0, nrCharacters |-> 0]

\* register without the lookup of the username
register_unchecked(tbl, username, hashedPassword) ==
    Reply(OK, Insert(tbl, UserRow(username, hashedPassword)), Flag(TRUE))

register(tbl, username, hashedPassword) ==
    IF First(tbl, LAMBDA u : u.username = username) # None
    THEN Reply(OK, tbl, Flag(FALSE))
    ELSE Reply(OK, Insert(tbl, UserRow(username, hashedPassword)), Flag(TRUE))

\* login that looks the user up and does not verify the password
login_without_verify(tbl, username, password, utcnow) ==
    LET id == First(tbl, LAMBDA u : u.username = username)
    IN IF id = None
       THEN Reply(Unauthorized, tbl, Nothing)
       ELSE Reply(OK, tbl,
                  [token |-> create_access_token([sub |-> tbl[id].username],
                                                 ACCESS_TOKEN_EXPIRE_MINUTES, utcnow),
                   token_type |-> "bearer", user_id |-> id])

login(tbl, username, password, utcnow) ==
    LET id == First(tbl, LAMBDA u : u.username = username)
    IN IF id = None \/ ~verify_password(password, tbl[id].hashedPassword)
       THEN Reply(Unauthorized, tbl, Nothing)
       ELSE Reply(OK, tbl,
                  [token |-> create_access_token([sub |-> tbl[id].username],
                                                 ACCESS_TOKEN_EXPIRE_MINUTES, utcnow),
                   token_type |-> "bearer", user_id |-> id])

remove_user_by_id(tbl, user_id) ==
    IF user_id \notin DOMAIN tbl
    THEN Reply(NotFound, tbl, Nothing)
    ELSE Reply(OK, Remove(tbl, user_id), Nothing)

get_user_by_id(tbl, user_id) ==
    IF user_id \notin DOMAIN tbl
    THEN Reply(NotFound, tbl, Nothing)
    ELSE Reply(OK, tbl, WithId(tbl, user_id))

\* update_aggregated_column_users that leaves nrCharacters as it was
update_aggregated_column_users_movies_only(utbl, mtbl, ctbl) ==
    [id \in DOMAIN utbl |->
        [utbl[id] EXCEPT
            !.nrMovies = Cardinality({m \in DOMAIN mtbl : mtbl[m].editorId = id})]]

\* the loop of update_aggregated_column_users over the users
update_aggregated_column_users(utbl, mtbl, ctbl) ==
    [id \in DOMAIN utbl |->
        [utbl[id] EXCEPT
            !.nrMovies = Cardinality({m \in DOMAIN mtbl : mtbl[m].editorId = id}),
            !.nrCharacters = Cardinality({c \in DOMAIN ctbl : ctbl[c].editorId = id})]]

get_non_admin_users(utbl, mtbl, ctbl) ==
    LET after == update_aggregated_column_users(utbl, mtbl, ctbl)
        all == Scan(after)
    IN Reply(OK, after, List(SelectSeq(all, LAMBDA u : u.row.username # "admin")))

\* get_movies_skip_limit without the offset
get_movies_limit_only(tbl, skip, limit) ==
    LET all == Scan(tbl)
    IN SubSeq(all, 1, IF limit < Len(all) THEN limit ELSE Len(all))

\* get_movies_skip_limit: offset(skip).limit(limit) of the scan
get_movies_skip_limit(tbl, skip, limit) ==
    LET all == Scan(tbl)
    IN SubSeq(all, skip + 1, IF skip + limit < Len(all) THEN skip + limit ELSE Len(all))

\* get_characters_skip_limit: order_by(Character.id).offset(skip).limit(limit)
get_characters_skip_limit(tbl, skip, limit) ==
    LET all == Scan(tbl)
    IN SubSeq(all, skip + 1, IF skip + limit < Len(all) THEN skip + limit ELSE Len(all))

\* update_aggregated_column_movies without the filter on movieName
update_aggregated_column_movies_unfiltered(mtbl, ctbl) ==
    LET some == {m.id : m \in Range(get_movies_skip_limit(mtbl, 0, ListLimit))}
    IN [id \in DOMAIN mtbl |->
          IF id \in some
          THEN [mtbl[id] EXCEPT !.nrCharacters = Cardinality(DOMAIN ctbl)]
          ELSE mtbl[id]]

\* update_aggregated_column_movies: the first ListLimit movies get the
\* number of characters whose movieName is their name
update_aggregated_column_movies(mtbl, ctbl) ==
    LET some == {m.id : m \in Range(get_movies_skip_limit(mtbl, 0, ListLimit))}
    IN [id \in DOMAIN mtbl |->
          IF id \in some
          THEN [mtbl[id] EXCEPT !.nrCharacters =
                    Cardinality({c \in DOMAIN ctbl : ctbl[c].movieName = mtbl[id].name})]
          ELSE mtbl[id]]

(***************************************************************************)
(* The state after start-up: create_all has made three empty tables, no    *)
(* websocket is connected.                                                 *)
(***************************************************************************)
NoArg == [id |-> None, name |-> "", body |-> Nothing]
ById(id) == [id |-> id, name |-> "", body |-> Nothing]
ByName(name) == [id |-> None, name |-> name, body |-> Nothing]
Body(body) == [id |-> None, name |-> "", body |-> body]
ByIdBody(id, body) == [id |-> id, name |-> "", body |-> body]
Credentials(username, password) ==
    [id |-> None, name |-> username, body |-> [password |-> password]]

\* the websockets that may connect, and the requests that may be in flight
Conns == 1..MaxConns
Tasks == 1..MaxTasks

\* a request in flight: the handler, what it was called with, what it will
\* return, and where its notify_clients is: index is the position of the
\* list iterator, sending the websocket whose send_json it awaits
Task(pc, op, arg, token, ret, index, sending, delivered, started) ==
    [pc |-> pc, op |-> op, arg |-> arg, token |-> token, ret |-> ret,
     index |-> index, sending |-> sending, delivered |-> delivered, started |-> started]

NoTask == Task("idle", "", [id |-> None, name |-> "", body |-> Nothing], NoToken, Nothing,
               0, None, <<>>, <<>>)

\* the last call: what was called with what, and what came back
Called(op, arg, reply) ==
    [op |-> op, arg |-> arg, token |-> NoToken, status |-> reply.status, ret |-> reply.ret,
     broadcast |-> FALSE, delivered |-> <<>>]

Init ==
    /\ movies = EmptyTable
    /\ characters = EmptyTable
    /\ users = EmptyTable
    /\ active_connections = <<>>
    /\ alive = {}
    /\ now = 0
    /\ generation_count = 0
    /\ scheduled = {}
    /\ issued = {}
    /\ result = Called("start", NoArg, Reply(OK, EmptyTable, Nothing))
    /\ sockets = [ws \in Conns |-> "CONNECTING"]
    /\ tasks = [k \in Tasks |-> NoTask]

Rows(tbl) == Cardinality(DOMAIN tbl)

\* the tables stay within the bounds of the model
Fits(mtbl, ctbl, utbl) ==
    /\ \/ Rows(mtbl) + Rows(ctbl) + Rows(utbl) <= MaxRows
       \/ Rows(ctbl) + Rows(utbl) = 0 /\ Rows(mtbl) <= MaxMovies
    /\ \A id \in DOMAIN mtbl \cup DOMAIN ctbl \cup DOMAIN utbl : id <= MaxId

(***************************************************************************)
(* Spec: the repository called directly, one call per step.                *)
(***************************************************************************)
MovieCall(op, arg, reply) ==
    /\ Fits(reply.table, characters, users)
    /\ movies' = reply.table
    /\ result' = Called(op, arg, reply)
    /\ UNCHANGED <<characters, users, active_connections, alive, now, generation_count,
                   scheduled, issued, sockets, tasks>>

CharacterCall(op, arg, reply) ==
    /\ Fits(movies, reply.table, users)
    /\ characters' = reply.table
    /\ result' = Called(op, arg, reply)
    /\ UNCHANGED <<movies, users, active_connections, alive, now, generation_count,
                   scheduled, issued, sockets, tasks>>

UserCall(op, arg, reply) ==
    /\ Fits(movies, characters, reply.table)
    /\ users' = reply.table
    /\ result' = Called(op, arg, reply)
    /\ UNCHANGED <<movies, characters, active_connections, alive, now, generation_count,
                   scheduled, issued, sockets, tasks>>

Call_get_movie == \E id \in Ids : MovieCall("get_movie", ById(id), get_movie(movies, id))

Call_add_movie == \E m \in MovieInputs : MovieCall("add_movie", Body(m), add_movie(movies, m))

Call_add_movies ==
    \E b \in MovieBatches : MovieCall("add_movies", Body(List(b)), add_movies(movies, b))

Call_update_movie ==
    \E id \in Ids, m \in MovieInputs :
        MovieCall("update_movie", ByIdBody(id, m), update_movie(movies, id, m))

Call_delete_movie_by_id ==
    \E id \in Ids : MovieCall("delete_movie_by_id", ById(id), delete_movie_by_id(movies, id))

Call_delete_movie_by_name ==
    \E n \in MovieNames :
        MovieCall("delete_movie_by_name", ByName(n), delete_movie_by_name(movies, n))

Call_delete_duplicates == MovieCall("delete_duplicates", NoArg, delete_duplicates(movies))

Call_get_character ==
    \E id \in Ids : CharacterCall("get_character", ById(id), get_character(characters, id))

Call_add_character ==
    \E c \in CharacterInputs : CharacterCall("add_character", Body(c), add_character(characters, c))

Call_add_characters ==
    \E b \in CharacterBatches :
        CharacterCall("add_characters", Body(List(b)), add_characters(characters, b))

Call_update_character ==
    \E id \in Ids, c \in CharacterInputs :
        CharacterCall("update_character", ByIdBody(id, c), update_character(characters, id, c))

Call_delete_character ==
    \E id \in Ids :
        CharacterCall("delete_character", ById(id), delete_character(characters, id))

\* register is given the hash the route has made of the password
Call_register ==
    \E u \in Usernames, p \in Passwords, s \in Salts :
        UserCall("register", [id |-> None, name |-> u,
                              body |-> [hashedPassword |-> get_password_hash(p, s)]],
                 register(users, u, get_password_hash(p, s)))

Call_get_user_by_id ==
    \E id \in Ids : UserCall("get_user_by_id", ById(id), get_user_by_id(users, id))

Call_remove_user_by_id ==
    \E id \in Ids : UserCall("remove_user_by_id", ById(id), remove_user_by_id(users, id))

Next ==
    \/ Call_get_movie
    \/ Call_add_movie
    \/ Call_add_movies
    \/ Call_update_movie
    \/ Call_delete_movie_by_id
    \/ Call_delete_movie_by_name
    \/ Call_delete_duplicates
    \/ Call_get_character
    \/ Call_add_character
    \/ Call_add_characters
    \/ Call_update_character
    \/ Call_delete_character
    \/ Call_register
    \/ Call_get_user_by_id
    \/ Call_remove_user_by_id

Spec == Init /\ [][Next]_vars

(***************************************************************************)
(* main.py: the websocket endpoint and the broadcast.                      *)
(***************************************************************************)
\* websocket_endpoint up to the receive loop: accept, then append.  A
\* websocket connects once.
WsAccept ==
    \E ws \in Conns :
        /\ sockets[ws] = "CONNECTING"
        /\ sockets' = [sockets EXCEPT ![ws] = "CONNECTED"]
        /\ active_connections' = Append(active_connections, ws)
        /\ alive' = alive \cup {ws}
        /\ UNCHANGED <<movies, characters, users, now, generation_count, scheduled, issued,
                       result, tasks>>

\* the peer goes away; the server has not read the disconnect yet
WsPeerLost ==
    \E ws \in alive :
        /\ alive' = alive \ {ws}
        /\ UNCHANGED <<movies, characters, users, active_connections, now,
                       generation_count, scheduled, issued, result, sockets, tasks>>

\* receive_text raises WebSocketDisconnect in an endpoint that is in its
\* loop: active_connections.remove(websocket)
WsDisconnect ==
    \E ws \in Range(active_connections) \ alive :
        /\ sockets[ws] \in {"CONNECTED", "SEND_FAILED"}
        /\ sockets' = [sockets EXCEPT ![ws] = "CLOSED"]
        /\ active_connections' = SelectSeq(active_connections, LAMBDA c : c # ws)
        /\ UNCHANGED <<movies, characters, users, alive, now, generation_count, scheduled,
                       issued, result, tasks>>

\* one turn of the loop: receive_text returns a frame, send_text echoes
\* it.  The peer may be gone by the time of the echo (lost); the send then
\* raises WebSocketDisconnect, which the endpoint handles, or another
\* error, which ends the endpoint and leaves the registry as it is.
WsEcho ==
    \E ws \in Range(active_connections) \cap alive, lost \in BOOLEAN, disconnect \in BOOLEAN :
        /\ sockets[ws] = "CONNECTED"
        /\ IF ~lost
           THEN /\ ~disconnect
                /\ UNCHANGED <<active_connections, alive, sockets>>
           ELSE /\ alive' = alive \ {ws}
                /\ IF disconnect
                   THEN /\ sockets' = [sockets EXCEPT ![ws] = "CLOSED"]
                        /\ active_connections' =
                              SelectSeq(active_connections, LAMBDA c : c # ws)
                   ELSE /\ sockets' = [sockets EXCEPT ![ws] = "CRASHED"]
                        /\ UNCHANGED active_connections
        /\ UNCHANGED <<movies, characters, users, now, generation_count, scheduled, issued,
                       result, tasks>>

\* notify_clients: send_json to each connection of the registry, in order.
\* A send to a peer that is gone raises or is dropped by the transport
\* (raises); an exception ends the loop.
RECURSIVE notify_loop(_, _, _, _)
notify_loop(rest, up, raises, delivered) ==
    IF rest = <<>>
    THEN [raised |-> FALSE, delivered |-> delivered]
    ELSE IF Head(rest) \in up
         THEN notify_loop(Tail(rest), up, raises, Append(delivered, Head(rest)))
         ELSE IF raises
              THEN [raised |-> TRUE, delivered |-> delivered]
              ELSE notify_loop(Tail(rest), up, raises, delivered)

notify_clients(connections, up, raises) == notify_loop(connections, up, raises, <<>>)

(***************************************************************************)
(* main.py: the route handlers.  A handler is one step: the checks of the  *)
(* token, the calls of the repository and the broadcast.                   *)
(***************************************************************************)
\* a bearer token that was not signed with SECRET_KEY
ForgedToken == [sub |-> "admin", exp |-> 2 * MaxTime, key |-> ForgedKey]

\* what a client can send as Authorization header: nothing, a token login
\* gave out, a forged one
TokenInputs == {NoToken, ForgedToken} \cup issued

\* Depends(oauth2_scheme): 401 when the request has no bearer token
oauth2_scheme(token) == IF token = NoToken THEN Unauthorized ELSE OK

\* the token checks of a route that calls verify_token
Verified(token) ==
    IF oauth2_scheme(token) # OK THEN Unauthorized ELSE verify_token(token, now)

\* the token checks of a route that takes the token and does not look at it
Unverified(token) == oauth2_scheme(token)

\* the token checks of a route that calls verify_admin_token
VerifiedAdmin(token) ==
    IF oauth2_scheme(token) # OK THEN Unauthorized ELSE verify_admin_token(token, now)

FitsApi(mtbl, ctbl, utbl) ==
    /\ Rows(mtbl) + Rows(ctbl) <= MaxRows
    /\ Rows(utbl) <= MaxUsers
    /\ \A id \in DOMAIN mtbl \cup DOMAIN ctbl \cup DOMAIN utbl : id <= MaxId

Answer(op, arg, token, status, ret, broadcast, delivered) ==
    [op |-> op, arg |-> arg, token |-> token, status |-> status, ret |-> ret,
     broadcast |-> broadcast, delivered |-> delivered]

\* A handler: auth is the outcome of its token checks, status and ret the
\* outcome of its repository calls, mtbl, ctbl and utbl the tables after
\* them; notifies says whether it ends with "await notify_clients()".
\* An HTTPException ends the handler where it is raised.
Handler(op, arg, token, auth, status, ret, mtbl, ctbl, utbl, notifies, raises) ==
    /\ UNCHANGED <<active_connections, alive, now, generation_count, scheduled, issued,
                   sockets, tasks>>
    /\ IF auth # OK
       THEN /\ result' = Answer(op, arg, token, auth, Nothing, FALSE, <<>>)
            /\ UNCHANGED <<movies, characters, users>>
       ELSE IF status # OK
            THEN /\ result' = Answer(op, arg, token, status, Nothing, FALSE, <<>>)
                 /\ UNCHANGED <<movies, characters, users>>
            ELSE /\ FitsApi(mtbl, ctbl, utbl)
                 /\ movies' = mtbl
                 /\ characters' = ctbl
                 /\ users' = utbl
                 /\ IF ~notifies
                    THEN result' = Answer(op, arg, token, OK, ret, FALSE, <<>>)
                    ELSE LET sent == notify_clients(active_connections, alive, raises)
                         IN result' = Answer(op, arg, token,
                                             IF sent.raised THEN ServerError ELSE OK,
                                             IF sent.raised THEN Nothing ELSE ret,
                                             TRUE, sent.delivered)

Route_get_movie ==
    \E id \in Ids, t \in TokenInputs :
        LET r == get_movie(movies, id)
        IN Handler("GET /movies/{id}", ById(id), t, Verified(t), r.status, r.ret,
                   movies, characters, users, FALSE, FALSE)

Route_add_movie ==
    \E m \in MovieInputs, t \in TokenInputs, raises \in BOOLEAN :
        LET r == add_movie(movies, m)
        IN Handler("POST /movies", Body(m), t, Verified(t), r.status, r.ret,
                   r.table, characters, users, TRUE, raises)

Route_update_movie ==
    \E id \in Ids, m \in MovieInputs, t \in TokenInputs, raises \in BOOLEAN :
        LET r == update_movie(movies, id, m)
        IN Handler("PUT /movies/{id}", ByIdBody(id, m), t, Verified(t), r.status, r.ret,
                   r.table, characters, users, TRUE, raises)

Route_delete_movie_by_id ==
    \E id \in Ids, t \in TokenInputs, raises \in BOOLEAN :
        LET r == delete_movie_by_id(movies, id)
        IN Handler("DELETE /movies/{id}", ById(id), t, Unverified(t), r.status,
                   [message |-> "Movie deleted successfully"],
                   r.table, characters, users, TRUE, raises)

Route_delete_movie_by_name ==
    \E n \in MovieNames, t \in TokenInputs, raises \in BOOLEAN :
        LET r == delete_movie_by_name(movies, n)
        IN Handler("DELETE /movies/by_name/{name}", ByName(n), t, Unverified(t), r.status,
                   [message |-> "Movie deleted successfully"],
                   r.table, characters, users, TRUE, raises)

Route_add_character ==
    \E c \in CharacterInputs, t \in TokenInputs, raises \in BOOLEAN :
        LET r == add_character(characters, c)
        IN Handler("POST /characters", Body(c), t, Verified(t), r.status, r.ret,
                   update_aggregated_column_movies(movies, r.table), r.table, users,
                   TRUE, raises)

Route_update_character ==
    \E id \in Ids, c \in CharacterInputs, t \in TokenInputs, raises \in BOOLEAN :
        LET r == update_character(characters, id, c)
        IN Handler("PUT /characters/{id}", ByIdBody(id, c), t, Unverified(t), r.status, r.ret,
                   movies, r.table, users, TRUE, raises)

Route_delete_character ==
    \E id \in Ids, t \in TokenInputs, raises \in BOOLEAN :
        LET r == delete_character(characters, id)
        IN Handler("DELETE /characters/{id}", ById(id), t, Verified(t), r.status,
                   [message |-> "Character deleted successfully"],
                   movies, r.table, users, TRUE, raises)

\* POST /movies/bulk/: no token is asked for
Route_add_bulk_movies ==
    \E b \in MovieBatches, raises \in BOOLEAN :
        LET r == add_movies(movies, b)
        IN Handler("POST /movies/bulk/", Body(List(b)), NoToken, OK, r.status, r.ret,
                   r.table, characters, users, TRUE, raises)

\* POST /characters/bulk/: no token is asked for
Route_add_bulk_characters ==
    \E b \in CharacterBatches, raises \in BOOLEAN :
        LET r == add_characters(characters, b)
        IN Handler("POST /characters/bulk/", Body(List(b)), NoToken, OK, r.status, r.ret,
                   movies, r.table, users, TRUE, raises)

\* DELETE /movies/delete_duplicates/: no token is asked for
Route_delete_duplicates ==
    \E raises \in BOOLEAN :
        LET r == delete_duplicates(movies)
        IN Handler("DELETE /movies/delete_duplicates/", NoArg, NoToken, OK, r.status,
                   [deleted_movies |-> r.ret.list], r.table, characters, users, TRUE, raises)

\* PUT /movies/update_nr_characters/: no token is asked for; an exception
\* of the recount or of the broadcast is caught and answered with a message
Route_update_nr_characters ==
    \E raises \in BOOLEAN :
        LET sent == notify_clients(active_connections, alive, raises)
        IN /\ movies' = update_aggregated_column_movies(movies, characters)
           /\ result' = Answer("PUT /movies/update_nr_characters/", NoArg, NoToken, OK,
                               [message |-> IF sent.raised
                                            THEN "Failed to update the aggregated column"
                                            ELSE "Aggregated column updated successfully"],
                               TRUE, sent.delivered)
           /\ UNCHANGED <<characters, users, active_connections, alive, now,
                          generation_count, scheduled, issued, sockets, tasks>>

\* POST /auth/register/: the password is hashed, then register
Route_register ==
    \E u \in Usernames, p \in Passwords, s \in Salts :
        LET r == register(users, u, get_password_hash(p, s))
        IN Handler("POST /auth/register/", Credentials(u, p), NoToken,
                   OK, r.status, r.ret, movies, characters, r.table, FALSE, FALSE)

\* POST /auth/login/; the client keeps the token of a login that succeeded
Route_login ==
    \E u \in Usernames, p \in Passwords :
        LET r == login(users, u, p, now)
        IN /\ result' = Answer("POST /auth/login/", Credentials(u, p),
                               NoToken, r.status, r.ret, FALSE, <<>>)
           /\ issued' = IF r.status = OK THEN issued \cup {r.ret.token} ELSE issued
           /\ Cardinality(issued') <= MaxTokens
           /\ UNCHANGED <<movies, characters, users, active_connections, alive, now,
                          generation_count, scheduled, sockets, tasks>>

Route_get_non_admin_users ==
    \E t \in TokenInputs :
        LET r == get_non_admin_users(users, movies, characters)
        IN Handler("GET /users/nonAdmin/", NoArg, t, VerifiedAdmin(t), r.status, r.ret,
                   movies, characters, r.table, FALSE, FALSE)

Route_remove_user_by_id ==
    \E id \in Ids, t \in TokenInputs :
        LET r == remove_user_by_id(users, id)
        IN Handler("DELETE /users/{userId}", ById(id), t, VerifiedAdmin(t), r.status,
                   [message |-> "User deleted successfully"],
                   movies, characters, r.table, FALSE, FALSE)

\* the clock: the start, the last minute of a token of the start, the
\* minute after it
TimePoints == {t \in {0, ACCESS_TOKEN_EXPIRE_MINUTES, ACCESS_TOKEN_EXPIRE_MINUTES + 1} : t <= MaxTime}

Tick ==
    \E t \in TimePoints :
        /\ t > now
        /\ now' = t
        /\ result' = Answer("tick", NoArg, NoToken, OK, Nothing, FALSE, <<>>)
        /\ UNCHANGED <<movies, characters, users, active_connections, alive, issued,
                       sockets, tasks, generation_count, scheduled>>

\* SpecAuth: the routes of the users and of the tokens, and the clock
NextAuth ==
    \/ Route_register
    \/ Route_login
    \/ Route_get_non_admin_users
    \/ Route_remove_user_by_id
    \/ Tick

SpecAuth == Init /\ [][NextAuth]_vars

\* SpecApi: the routes of the movies and characters, one request at a time
NextApi ==
    \/ Route_register
    \/ Route_login
    \/ Route_get_movie
    \/ Route_add_movie
    \/ Route_update_movie
    \/ Route_delete_movie_by_id
    \/ Route_delete_movie_by_name
    \/ Route_add_character
    \/ Route_update_character
    \/ Route_delete_character
    \/ Route_add_bulk_movies
    \/ Route_add_bulk_characters
    \/ Route_delete_duplicates
    \/ Route_update_nr_characters

SpecApi == Init /\ [][NextApi]_vars

(***************************************************************************)
(* Requests in flight on the event loop.  A handler is a coroutine: it    *)
(* runs without interruption from one await that suspends to the next.     *)
(* The repository calls are synchronous; "await notify_clients()" may      *)
(* suspend at each send_json, and the websocket endpoints and the other    *)
(* handlers run in between.                                                *)
(***************************************************************************)
\* a request has been received: its handler waits for its dependencies
\* (the session of get_database, the bearer token of oauth2_scheme)
Request(op, arg, token) ==
    \E k \in Tasks :
        /\ tasks[k].pc = "idle"
        /\ \A j \in 1..(k - 1) : tasks[j].pc # "idle"
        /\ tasks' = [tasks EXCEPT ![k] = Task("pending", op, arg, token, Nothing,
                                              0, None, <<>>, <<>>)]
        /\ UNCHANGED <<movies, characters, users, active_connections, alive, now,
                       generation_count, scheduled, issued, result, sockets>>

Request_update_movie ==
    \E id \in Ids, m \in MovieInputs, t \in TokenInputs :
        Request("PUT /movies/{id}", ByIdBody(id, m), t)

Request_delete_duplicates == Request("DELETE /movies/delete_duplicates/", NoArg, NoToken)

\* the handler ends: the response goes out
Respond(k, status, ret, broadcast, delivered) ==
    /\ result' = Answer(tasks[k].op, tasks[k].arg, tasks[k].token, status, ret,
                        broadcast, delivered)
    /\ tasks' = [tasks EXCEPT ![k] = NoTask]

\* notify_clients takes the next connection of the list, if there is one
\* at the position of the iterator, and awaits its send_json
NextSend(k, ret, index, delivered, started) ==
    IF index < Len(active_connections)
    THEN /\ tasks' = [tasks EXCEPT ![k] = Task("sending", tasks[k].op, tasks[k].arg,
                                               tasks[k].token, ret, index + 1,
                                               active_connections[index + 1],
                                               delivered, started)]
         /\ UNCHANGED result
    ELSE Respond(k, OK, ret, TRUE, delivered)

\* the handlers whose notify_clients is suspended at a send_json
Sending == {k \in Tasks : tasks[k].pc = "sending"}

\* update_movie of main.py up to the first send_json of notify_clients
Run_update_movie ==
    \E k \in Tasks :
        /\ tasks[k].pc = "pending"
        /\ tasks[k].op = "PUT /movies/{id}"
        /\ Cardinality(Sending) < MaxSending
        /\ UNCHANGED <<characters, users, active_connections, alive, now, generation_count,
                       scheduled, issued, sockets>>
        /\ LET r == update_movie(movies, tasks[k].arg.id, tasks[k].arg.body)
           IN IF Verified(tasks[k].token) # OK
              THEN /\ Respond(k, Verified(tasks[k].token), Nothing, FALSE, <<>>)
                   /\ UNCHANGED movies
              ELSE IF r.status # OK
                   THEN /\ Respond(k, r.status, Nothing, FALSE, <<>>)
                        /\ UNCHANGED movies
                   ELSE /\ movies' = r.table
                        /\ NextSend(k, r.ret, 0, <<>>, active_connections)

\* delete_duplicates of main.py up to the first send_json of notify_clients
Run_delete_duplicates ==
    \E k \in Tasks :
        /\ tasks[k].pc = "pending"
        /\ tasks[k].op = "DELETE /movies/delete_duplicates/"
        /\ Cardinality(Sending) < MaxSending
        /\ UNCHANGED <<characters, users, active_connections, alive, now, generation_count,
                       scheduled, issued, sockets>>
        /\ LET r == delete_duplicates(movies)
           IN /\ movies' = r.table
              /\ NextSend(k, [deleted_movies |-> r.ret.list], 0, <<>>, active_connections)

\* a send_json returns or raises, and notify_clients goes on from there.
\* A send to a peer that is gone raises, which ends the handler, or is
\* dropped by the transport (raises).
Resume ==
    \E k \in Tasks, raises \in BOOLEAN :
        /\ tasks[k].pc = "sending"
        /\ UNCHANGED <<movies, characters, users, active_connections, alive, now,
                       generation_count, scheduled, issued>>
        /\ LET ws == tasks[k].sending
           IN IF ws \in alive
              THEN /\ ~raises
                   /\ UNCHANGED sockets
                   /\ NextSend(k, tasks[k].ret, tasks[k].index,
                               Append(tasks[k].delivered, ws), tasks[k].started)
              ELSE IF raises
                   THEN /\ sockets' = [sockets EXCEPT ![ws] =
                                          IF @ = "CONNECTED" THEN "SEND_FAILED" ELSE @]
                        /\ Respond(k, ServerError, Nothing, TRUE, tasks[k].delivered)
                   ELSE /\ UNCHANGED sockets
                        /\ NextSend(k, tasks[k].ret, tasks[k].index, tasks[k].delivered,
                                    tasks[k].started)

\* SpecLoop: the websockets, and requests that broadcast
NextLoop ==
    \/ WsAccept
    \/ WsPeerLost
    \/ WsDisconnect
    \/ WsEcho
    \/ Request_delete_duplicates
    \/ Run_delete_duplicates
    \/ Resume

SpecLoop == Init /\ [][NextLoop]_vars

\* the server some time after its start: a user has registered and logged
\* in, a movie is stored
InitRequests ==
    /\ movies = Insert(EmptyTable, MovieRow(MovieBase("Matrix", 1)))
    /\ characters = EmptyTable
    /\ users = Insert(EmptyTable, UserRow("bob", get_password_hash("pw", "s1")))
    /\ active_connections = <<>>
    /\ alive = {}
    /\ now = 0
    /\ generation_count = 0
    /\ scheduled = {}
    /\ issued = {create_access_token([sub |-> "bob"], ACCESS_TOKEN_EXPIRE_MINUTES, 0)}
    /\ result = Called("start", NoArg, Reply(OK, EmptyTable, Nothing))
    /\ sockets = [ws \in Conns |-> "CONNECTING"]
    /\ tasks = [k \in Tasks |-> NoTask]

\* SpecRequests: update requests in flight together
NextRequests ==
    \/ Request_update_movie
    \/ Run_update_movie

SpecRequests == InitRequests /\ [][NextRequests]_vars

(***************************************************************************)
(* SpecList: the listings, called on any tables the store can hold.        *)
(***************************************************************************)
\* the tables over the ids S whose rows are in Rows
TablesOver(S, StoredRows) == UNION {[ids -> StoredRows] : ids \in SUBSET S}

\* the movies the store can hold: rows as add_movie stores them, no name
\* twice
StoredMovies ==
    {tbl \in TablesOver(1..MaxId, {MovieRow(m) : m \in MovieInputs}) : UniqueNames(tbl)}

\* the characters the store can hold
StoredCharacters == TablesOver(1..MaxId, {CharacterRow(c) : c \in CharacterInputs})

\* a call that reads: the tables stay as they are
Query(op, arg, ret) ==
    /\ result' = Called(op, arg, Reply(OK, EmptyTable, ret))
    /\ UNCHANGED <<movies, characters, users, active_connections, alive, now,
                   generation_count, scheduled, issued, sockets, tasks>>

Page(skip, limit) == [id |-> None, name |-> "", body |-> [skip |-> skip, limit |-> limit]]

Call_get_movies_skip_limit ==
    \E skip \in 0..MaxPage, limit \in 0..MaxPage :
        Query("get_movies_skip_limit", Page(skip, limit),
              List(get_movies_skip_limit(movies, skip, limit)))

Call_get_characters_skip_limit ==
    \E skip \in 0..MaxPage, limit \in 0..MaxPage :
        Query("get_characters_skip_limit", Page(skip, limit),
              List(get_characters_skip_limit(characters, skip, limit)))

InitList ==
    /\ movies \in StoredMovies
    /\ characters \in StoredCharacters
    /\ users = EmptyTable
    /\ active_connections = <<>>
    /\ alive = {}
    /\ now = 0
    /\ generation_count = 0
    /\ scheduled = {}
    /\ issued = {}
    /\ result = Called("start", NoArg, Reply(OK, EmptyTable, Nothing))
    /\ sockets = [ws \in Conns |-> "CONNECTING"]
    /\ tasks = [k \in Tasks |-> NoTask]

NextList ==
    \/ Call_get_movies_skip_limit
    \/ Call_get_characters_skip_limit

SpecList == InitList /\ [][NextList]_vars

(***************************************************************************)
(* SpecDuplicates: delete_duplicates on a movies table in which names may  *)
(* repeat: the table of a database file that was made before the name      *)
(* column was unique (create_all leaves a table that exists as it is).     *)
(***************************************************************************)
MoviesWithDuplicates == TablesOver(Ids, {MovieRow(m) : m \in MovieInputs})

Purge_duplicates ==
    LET r == delete_duplicates(movies)
    IN /\ movies' = r.table
       /\ result' = Called("delete_duplicates", NoArg, r)
       /\ UNCHANGED <<characters, users, active_connections, alive, now, generation_count,
                      scheduled, issued, sockets, tasks>>

InitDuplicates ==
    /\ movies \in MoviesWithDuplicates
    /\ characters = EmptyTable
    /\ users = EmptyTable
    /\ active_connections = <<>>
    /\ alive = {}
    /\ now = 0
    /\ generation_count = 0
    /\ scheduled = {}
    /\ issued = {}
    /\ result = Called("start", NoArg, Reply(OK, EmptyTable, Nothing))
    /\ sockets = [ws \in Conns |-> "CONNECTING"]
    /\ tasks = [k \in Tasks |-> NoTask]

NextDuplicates == Purge_duplicates

SpecDuplicates == InitDuplicates /\ [][NextDuplicates]_vars

(***************************************************************************)
(* SpecAggregates: the recounts on stored tables whose counts may be out   *)
(* of date.                                                                *)
(***************************************************************************)
\* a user as register stored it, with the counts of an earlier recount
StoredUser(username, n) ==
    [UserRow(username, get_password_hash("pw", "s1")) EXCEPT
        !.nrMovies = n, !.nrCharacters = n]

\* the users the store can hold: register stores no username twice
StoredUsers ==
    {tbl \in TablesOver(1..MaxId, {StoredUser(u, n) : u \in Usernames, n \in {0, 1}}) :
        \A i, j \in DOMAIN tbl : tbl[i].username = tbl[j].username => i = j}

Call_update_aggregated_column_movies ==
    /\ movies' = update_aggregated_column_movies(movies, characters)
    /\ result' = Called("update_aggregated_column_movies", NoArg,
                        Reply(OK, EmptyTable, Nothing))
    /\ UNCHANGED <<characters, users, active_connections, alive, now, generation_count,
                   scheduled, issued, sockets, tasks>>

Call_get_non_admin_users ==
    LET r == get_non_admin_users(users, movies, characters)
    IN /\ users' = r.table
       /\ result' = Called("get_non_admin_users", NoArg, r)
       /\ UNCHANGED <<movies, characters, active_connections, alive, now, generation_count,
                      scheduled, issued, sockets, tasks>>

InitAggregates ==
    /\ movies \in StoredMovies
    /\ characters \in StoredCharacters
    /\ users \in StoredUsers
    /\ active_connections = <<>>
    /\ alive = {}
    /\ now = 0
    /\ generation_count = 0
    /\ scheduled = {}
    /\ issued = {}
    /\ result = Called("start", NoArg, Reply(OK, EmptyTable, Nothing))
    /\ sockets = [ws \in Conns |-> "CONNECTING"]
    /\ tasks = [k \in Tasks |-> NoTask]

NextAggregates ==
    \/ Call_update_aggregated_column_movies
    \/ Call_get_non_admin_users

SpecAggregates == InitAggregates /\ [][NextAggregates]_vars

(***************************************************************************)
(* SpecStore: the calls of the repository that write movies or characters, *)
(* on stored tables, one call per step.                                    *)
(***************************************************************************)
\* a call of the repository: the tables after it, and how it ended
StoreCall(op, status, mtbl, ctbl, utbl) ==
    /\ \A id \in DOMAIN mtbl \cup DOMAIN ctbl \cup DOMAIN utbl : id <= MaxId
    /\ movies' = mtbl
    /\ characters' = ctbl
    /\ users' = utbl
    /\ result' = Called(op, NoArg, Reply(status, EmptyTable, Nothing))
    /\ UNCHANGED <<active_connections, alive, now, generation_count, scheduled, issued,
                   sockets, tasks>>

Store_add_character ==
    \E c \in CharacterInputs :
        LET r == add_character(characters, c)
        IN StoreCall("add_character", r.status, movies, r.table, users)

Store_add_characters ==
    \E b \in CharacterBatches :
        LET r == add_characters(characters, b)
        IN StoreCall("add_characters", r.status, movies, r.table, users)

Store_update_character ==
    \E id \in Ids, c \in CharacterInputs :
        LET r == update_character(characters, id, c)
        IN StoreCall("update_character", r.status, movies, r.table, users)

Store_delete_character ==
    \E id \in Ids :
        LET r == delete_character(characters, id)
        IN StoreCall("delete_character", r.status, movies, r.table, users)

Store_update_movie ==
    \E id \in Ids, m \in MovieInputs :
        LET r == update_movie(movies, id, m)
        IN StoreCall("update_movie", r.status, r.table, characters, users)

Store_delete_movie_by_id ==
    \E id \in Ids :
        LET r == delete_movie_by_id(movies, id)
        IN StoreCall("delete_movie_by_id", r.status, r.table, characters, users)

Store_delete_movie_by_name ==
    \E n \in MovieNames :
        LET r == delete_movie_by_name(movies, n)
        IN StoreCall("delete_movie_by_name", r.status, r.table, characters, users)

\* movies and characters stored, and a user whose counts an earlier
\* recount has set
InitStore ==
    /\ movies \in StoredMovies
    /\ characters \in StoredCharacters
    /\ users = Insert(EmptyTable, StoredUser("bob", 1))
    /\ active_connections = <<>>
    /\ alive = {}
    /\ now = 0
    /\ generation_count = 0
    /\ scheduled = {}
    /\ issued = {}
    /\ result = Called("start", NoArg, Reply(OK, EmptyTable, Nothing))
    /\ sockets = [ws \in Conns |-> "CONNECTING"]
    /\ tasks = [k \in Tasks |-> NoTask]

NextStore ==
    \/ Store_add_character
    \/ Store_add_characters
    \/ Store_update_character
    \/ Store_delete_character
    \/ Store_update_movie
    \/ Store_delete_movie_by_id
    \/ Store_delete_movie_by_name
    \/ Call_update_aggregated_column_movies

SpecStore == InitStore /\ [][NextStore]_vars

(***************************************************************************)
(* SpecUsers: register and remove_user_by_id on a stored users table.      *)
(***************************************************************************)
UsersCall(op, arg, reply) ==
    /\ \A id \in DOMAIN reply.table : id <= MaxId
    /\ users' = reply.table
    /\ result' = Called(op, arg, reply)
    /\ UNCHANGED <<movies, characters, active_connections, alive, now, generation_count,
                   scheduled, issued, sockets, tasks>>

\* register is given the hash the route has made of the password
Store_register ==
    \E u \in Usernames, p \in Passwords, s \in Salts :
        UsersCall("register", Credentials(u, p), register(users, u, get_password_hash(p, s)))

Store_remove_user_by_id ==
    \E id \in Ids : UsersCall("remove_user_by_id", ById(id), remove_user_by_id(users, id))

InitUsers ==
    /\ movies = EmptyTable
    /\ characters = EmptyTable
    /\ users \in StoredUsers
    /\ active_connections = <<>>
    /\ alive = {}
    /\ now = 0
    /\ generation_count = 0
    /\ scheduled = {}
    /\ issued = {}
    /\ result = Called("start", NoArg, Reply(OK, EmptyTable, Nothing))
    /\ sockets = [ws \in Conns |-> "CONNECTING"]
    /\ tasks = [k \in Tasks |-> NoTask]

NextUsers ==
    \/ Store_register
    \/ Store_remove_user_by_id

SpecUsers == InitUsers /\ [][NextUsers]_vars

(***************************************************************************)
(* SpecNotify: routes that end with the broadcast, one request at a time,  *)
(* with a websocket in the registry whose peer may go away.                *)
(***************************************************************************)
\* the server some time after its start: a user has logged in, a movie is
\* stored, a websocket has been accepted
InitNotify ==
    /\ movies = Insert(EmptyTable, MovieRow(MovieBase("Matrix", 1)))
    /\ characters = EmptyTable
    /\ users = Insert(EmptyTable, UserRow("bob", get_password_hash("pw", "s1")))
    /\ active_connections = <<1>>
    /\ alive = {1}
    /\ now = 0
    /\ generation_count = 0
    /\ scheduled = {}
    /\ issued = {create_access_token([sub |-> "bob"], ACCESS_TOKEN_EXPIRE_MINUTES, 0)}
    /\ result = Called("start", NoArg, Reply(OK, EmptyTable, Nothing))
    /\ sockets = [ws \in Conns |-> IF ws = 1 THEN "CONNECTED" ELSE "CONNECTING"]
    /\ tasks = [k \in Tasks |-> NoTask]

NextNotify ==
    \/ WsPeerLost
    \/ Route_add_movie
    \/ Route_delete_movie_by_id
    \/ Route_update_nr_characters

SpecNotify == InitNotify /\ [][NextNotify]_vars

(***************************************************************************)
(* SpecGenerated: generate_and_add_movies on stored tables.  A call that   *)
(* does not return is the last step.                                       *)
(***************************************************************************)
Call_generate_and_add_movies ==
    \E count \in 0..MaxBatch :
        \E r \in generate_and_add_movies(movies, count) :
            /\ result.status # Diverges
            /\ \A id \in DOMAIN r.table : id <= MaxId + MaxBatch
            /\ movies' = r.table
            /\ result' = Called("generate_and_add_movies",
                                [id |-> None, name |-> "", body |-> [count |-> count]], r)
            /\ UNCHANGED <<characters, users, active_connections, alive, now,
                           generation_count, scheduled, issued, sockets, tasks>>

NextGenerated == Call_generate_and_add_movies

SpecGenerated == InitList /\ [][NextGenerated]_vars

(***************************************************************************)
(* SpecGenerate: POST /movies/generate/{number} and the calls it leaves    *)
(* behind.  The background task runs on the event loop after the response; *)
(* a threading.Timer calls its function in a thread of its own.            *)
(***************************************************************************)
\* a call of generate_and_add_movies_periodically that waits to run: who
\* makes the call, with how many positional arguments, and the count
Scheduled(by, positional, count) == [by |-> by, positional |-> positional, count |-> count]

\* generate_and_add_movies is in a loop that does not end: the event loop
\* runs nothing else
Blocked == \E c \in scheduled : c.by = "running"

\* generate_movies: resets generation_count and adds the background task
\* with the arguments (db, number)
Route_generate_movies ==
    \E number \in 0..MaxBatch :
        /\ ~Blocked
        /\ generation_count' = 0
        /\ scheduled' = scheduled \cup {Scheduled("BackgroundTasks", 2, number)}
        /\ Cardinality(scheduled') <= MaxTasks
        /\ result' = Answer("POST /movies/generate/{number}",
                            [id |-> None, name |-> "", body |-> [number |-> number]],
                            NoToken, OK, [message |-> "Generating movies in background"],
                            FALSE, <<>>)
        /\ UNCHANGED <<movies, characters, users, active_connections, alive, now, issued,
                       sockets, tasks>>

\* generate_and_add_movies_periodically(db, count), run as background task:
\* an exception of generate_and_add_movies or of notify_clients ends it
\* before generation_count is counted up and the timer is started
Run_generate_periodically ==
    \E c \in scheduled, raises \in BOOLEAN :
        /\ c.by = "BackgroundTasks"
        /\ ~Blocked
        /\ \E r \in generate_and_add_movies(movies, c.count) :
              LET sent == notify_clients(active_connections, alive, raises)
              IN /\ \A id \in DOMAIN r.table : id <= MaxId
                 /\ movies' = r.table
                 /\ IF r.status = Diverges
                    THEN /\ scheduled' = (scheduled \ {c}) \cup
                                            {Scheduled("running", c.positional, c.count)}
                         /\ UNCHANGED generation_count
                    ELSE IF r.status # OK \/ sent.raised
                         THEN /\ scheduled' = scheduled \ {c}
                              /\ UNCHANGED generation_count
                         ELSE /\ generation_count' = generation_count + 1
                              /\ scheduled' =
                                    (scheduled \ {c}) \cup
                                       IF generation_count + 1 < RepeatCount
                                       THEN {Scheduled("Timer", 1, c.count)}
                                       ELSE {}
        /\ UNCHANGED <<characters, users, active_connections, alive, now, issued, result,
                       sockets, tasks>>

\* threading.Timer(1, generate_and_add_movies_periodically, args=[count])
\* fires: function(*args) with one positional argument for the parameters
\* (db, count) raises TypeError in the thread of the timer; with both it
\* would make a coroutine that nothing awaits.  No movie is generated.
Timer_fires ==
    \E c \in scheduled :
        /\ c.by = "Timer"
        /\ scheduled' = scheduled \ {c}
        /\ UNCHANGED <<movies, characters, users, active_connections, alive, now, issued,
                       result, sockets, tasks, generation_count>>

NextGenerate ==
    \/ Route_generate_movies
    \/ Run_generate_periodically
    \/ Timer_fires

SpecGenerate == InitRequests /\ [][NextGenerate]_vars

(***************************************************************************)
(* SpecBulk: the bulk deletes by id range on stored tables.                *)
(***************************************************************************)
\* range(start_id, end_id): the ids from start_id up to, not including,
\* end_id
PyRange(start_id, end_id) == [i \in 1..(end_id - start_id) |-> start_id + i - 1]

\* the loop of delete_bulk_movies: an id whose delete raises is noted as
\* not found and the loop goes on
RECURSIVE delete_bulk_movies_loop(_, _, _, _)
delete_bulk_movies_loop(tbl, rest, deleted_movies, not_found_movies) ==
    IF rest = <<>>
    THEN Reply(OK, tbl, [deleted |-> deleted_movies, not_found |-> not_found_movies])
    ELSE LET r == delete_movie_by_id(tbl, Head(rest))
         IN IF r.status = OK
            THEN delete_bulk_movies_loop(r.table, Tail(rest),
                                         Append(deleted_movies, Head(rest)), not_found_movies)
            ELSE delete_bulk_movies_loop(tbl, Tail(rest), deleted_movies,
                                         Append(not_found_movies, Head(rest)))

RECURSIVE delete_bulk_characters_loop(_, _, _, _)
delete_bulk_characters_loop(tbl, rest, deleted_characters, not_found_characters) ==
    IF rest = <<>>
    THEN Reply(OK, tbl, [deleted |-> deleted_characters, not_found |-> not_found_characters])
    ELSE LET r == delete_character(tbl, Head(rest))
         IN IF r.status = OK
            THEN delete_bulk_characters_loop(r.table, Tail(rest),
                                             Append(deleted_characters, Head(rest)),
                                             not_found_characters)
            ELSE delete_bulk_characters_loop(tbl, Tail(rest), deleted_characters,
                                             Append(not_found_characters, Head(rest)))

IdRange(start_id, end_id) ==
    [id |-> None, name |-> "", body |-> [start_id |-> start_id, end_id |-> end_id]]

\* DELETE /movies/bulk/{movie_id_start}/{start_id}/{end_id}: no token is
\* asked for
Route_delete_bulk_movies ==
    \E start_id \in Ids, end_id \in Ids, raises \in BOOLEAN :
        LET r == delete_bulk_movies_loop(movies, PyRange(start_id, end_id), <<>>, <<>>)
            sent == notify_clients(active_connections, alive, raises)
        IN /\ movies' = r.table
           /\ result' = Answer("DELETE /movies/bulk/{start_id}/{end_id}",
                               IdRange(start_id, end_id), NoToken,
                               IF sent.raised THEN ServerError ELSE OK,
                               IF sent.raised THEN Nothing ELSE r.ret, TRUE, sent.delivered)
           /\ UNCHANGED <<characters, users, active_connections, alive, now, issued,
                          sockets, tasks, generation_count, scheduled>>

\* DELETE /characters/bulk/{start_id}/{end_id}: no token is asked for
Route_delete_bulk_characters ==
    \E start_id \in Ids, end_id \in Ids, raises \in BOOLEAN :
        LET r == delete_bulk_characters_loop(characters, PyRange(start_id, end_id),
                                             <<>>, <<>>)
            sent == notify_clients(active_connections, alive, raises)
        IN /\ characters' = r.table
           /\ result' = Answer("DELETE /characters/bulk/{start_id}/{end_id}",
                               IdRange(start_id, end_id), NoToken,
                               IF sent.raised THEN ServerError ELSE OK,
                               IF sent.raised THEN Nothing ELSE r.ret, TRUE, sent.delivered)
           /\ UNCHANGED <<movies, users, active_connections, alive, now, issued,
                          sockets, tasks, generation_count, scheduled>>

NextBulk ==
    \/ Route_delete_bulk_movies
    \/ Route_delete_bulk_characters

SpecBulk == InitList /\ [][NextBulk]_vars

(***************************************************************************)
(* SpecTokens: create_access_token called with and without expires_delta,  *)
(* and the clock.                                                          *)
(***************************************************************************)
\* a timedelta of 0 minutes is given as 0: like None it is false in
\* "if expires_delta:"
Call_create_access_token ==
    \E sub \in Usernames, provided \in BOOLEAN, minutes \in 0..MaxTime :
        /\ provided \/ minutes = 0
        /\ result' = Called("create_access_token",
                            [id |-> None, name |-> sub,
                             body |-> [provided |-> provided, minutes |-> minutes]],
                            Reply(OK, EmptyTable,
                                  create_access_token([sub |-> sub],
                                                      IF provided THEN minutes ELSE None,
                                                      now)))
        /\ UNCHANGED <<movies, characters, users, active_connections, alive, now, issued,
                       sockets, tasks, generation_count, scheduled>>

NextTokens ==
    \/ Call_create_access_token
    \/ Tick

SpecTokens == Init /\ [][NextTokens]_vars

(***************************************************************************)
(* SpecCreate: creates of movies in flight together.  A create that has    *)
(* stored its movie is suspended in its broadcast while the handler of     *)
(* another create runs.                                                    *)
(***************************************************************************)
\* the server some time after its start: a user has logged in, a websocket
\* has been accepted, no movie is stored yet
InitCreate ==
    /\ movies = EmptyTable
    /\ characters = EmptyTable
    /\ users = Insert(EmptyTable, UserRow("bob", get_password_hash("pw", "s1")))
    /\ active_connections = <<1>>
    /\ alive = {1}
    /\ now = 0
    /\ generation_count = 0
    /\ scheduled = {}
    /\ issued = {create_access_token([sub |-> "bob"], ACCESS_TOKEN_EXPIRE_MINUTES, 0)}
    /\ result = Called("start", NoArg, Reply(OK, EmptyTable, Nothing))
    /\ sockets = [ws \in Conns |-> IF ws = 1 THEN "CONNECTED" ELSE "CONNECTING"]
    /\ tasks = [k \in Tasks |-> NoTask]

\* the creates differ in their names and tokens; the other fields are those
\* of the first variant
Request_add_movie ==
    \E n \in MovieNames, t \in TokenInputs :
        Request("POST /movies", Body(MovieBase(n, 1)), t)

Request_add_bulk_movies ==
    \E ns \in SeqUpTo(MovieNames, MaxBatch) :
        Request("POST /movies/bulk/", Body(List([i \in DOMAIN ns |-> MovieBase(ns[i], 1)])),
                NoToken)

\* add_movie of main.py up to the first send_json of notify_clients:
\* verify_token, the lookup by name and the insert are calls without an
\* await in between
Run_add_movie ==
    \E k \in Tasks :
        /\ tasks[k].pc = "pending"
        /\ tasks[k].op = "POST /movies"
        /\ UNCHANGED <<characters, users, active_connections, alive, now, generation_count,
                       scheduled, issued, sockets>>
        /\ LET r == add_movie(movies, tasks[k].arg.body)
           IN IF Verified(tasks[k].token) # OK
              THEN /\ Respond(k, Verified(tasks[k].token), Nothing, FALSE, <<>>)
                   /\ UNCHANGED movies
              ELSE IF r.status # OK
                   THEN /\ Respond(k, r.status, Nothing, FALSE, <<>>)
                        /\ UNCHANGED movies
                   ELSE /\ \A id \in DOMAIN r.table : id <= MaxId
                        /\ movies' = r.table
                        /\ NextSend(k, r.ret, 0, <<>>, active_connections)

\* add_bulk_movies of main.py up to the first send_json of notify_clients
Run_add_bulk_movies ==
    \E k \in Tasks :
        /\ tasks[k].pc = "pending"
        /\ tasks[k].op = "POST /movies/bulk/"
        /\ UNCHANGED <<characters, users, active_connections, alive, now, generation_count,
                       scheduled, issued, sockets>>
        /\ LET r == add_movies(movies, tasks[k].arg.body.list)
           IN /\ \A id \in DOMAIN r.table : id <= MaxId
              /\ movies' = r.table
              /\ NextSend(k, r.ret, 0, <<>>, active_connections)

NextCreate ==
    \/ Request_add_movie
    \/ Request_add_bulk_movies
    \/ Run_add_movie
    \/ Run_add_bulk_movies
    \/ Resume

SpecCreate == InitCreate /\ [][NextCreate]_vars

(***************************************************************************)
(* Properties of the repository.                                           *)
(***************************************************************************)
NamesOf(tbl) == {tbl[id].name : id \in DOMAIN tbl}

\* every row of before is in after, unchanged
Keeps(before, after) ==
    \A id \in DOMAIN before : id \in DOMAIN after /\ after[id] = before[id]

\* C1: add_movie of a name that is stored answers 400 and leaves the
\* movies as they are; add_movie of a name that is not stored answers 200
\* and adds exactly one movie, of that name.
C1_AddMovieConflict ==
    [][result'.op = "add_movie" =>
        LET name == result'.arg.body.name
        IN IF name \in NamesOf(movies)
           THEN result'.status = Conflict /\ movies' = movies
           ELSE /\ result'.status = OK
                /\ Keeps(movies, movies')
                /\ Rows(movies') = Rows(movies) + 1
                /\ \E id \in DOMAIN movies' \ DOMAIN movies : movies'[id].name = name]_vars

\* a create of a stored name has been refused
C1_Witness ==
    /\ result.op = "add_movie"
    /\ result.status = Conflict
    /\ result.arg.body.name \in NamesOf(movies)

\* C2: no two stored movies have the same name, whatever calls of
\* add_movie, add_movies, update_movie, the deletes and delete_duplicates
\* were made.
C2_MovieNamesUnique ==
    \A i \in DOMAIN movies : \A j \in DOMAIN movies :
        i # j => movies[i].name # movies[j].name

\* an update that renames a movie to the name of another one was refused
C2_Witness ==
    /\ result.op = "update_movie"
    /\ result.status = ServerError
    /\ Rows(movies) = 2
    /\ \E id \in DOMAIN movies : id # result.arg.id /\ movies[id].name = result.arg.body.name

\* C3 (as claimed): when a create has succeeded, the returned id is the
\* id of no entity that was stored before, and get of that id returns
\* every field as it was submitted.
C3_GetAfterCreate ==
    [][/\ (result'.op = "add_movie" /\ result'.status = OK) =>
            /\ result'.ret.id \notin DOMAIN movies
            /\ get_movie(movies', result'.ret.id).status = OK
            /\ get_movie(movies', result'.ret.id).ret.id = result'.ret.id
            /\ get_movie(movies', result'.ret.id).ret.row = result'.arg.body
       /\ (result'.op = "add_character" /\ result'.status = OK) =>
            /\ result'.ret.id \notin DOMAIN characters
            /\ get_character(characters', result'.ret.id).status = OK
            /\ get_character(characters', result'.ret.id).ret.id = result'.ret.id
            /\ get_character(characters', result'.ret.id).ret.row = result'.arg.body]_vars

\* C4 (as claimed): after an update that succeeded, get of the id returns
\* the submitted fields, but for nrCharacters and editorId, which keep the
\* values they had.
C4_GetAfterUpdate ==
    [][/\ (result'.op = "update_movie" /\ result'.status = OK) =>
            LET id == result'.arg.id
                new == result'.arg.body
                got == get_movie(movies', id).ret
            IN /\ got.id = id
               /\ got.row = [new EXCEPT !.nrCharacters = movies[id].nrCharacters,
                                        !.editorId = movies[id].editorId]
       /\ (result'.op = "update_character" /\ result'.status = OK) =>
            LET id == result'.arg.id
                new == result'.arg.body
                got == get_character(characters', id).ret
            IN /\ got.id = id
               /\ got.row = [new EXCEPT !.editorId = characters[id].editorId]]_vars

\* C5: an update of an id that is not stored answers 404 and leaves every
\* movie and every character as it is.
C5_UpdateMissing ==
    [][/\ (result'.op = "update_movie" /\ result'.arg.id \notin DOMAIN movies) =>
            result'.status = NotFound /\ movies' = movies /\ characters' = characters
       /\ (result'.op = "update_character" /\ result'.arg.id \notin DOMAIN characters) =>
            result'.status = NotFound /\ movies' = movies /\ characters' = characters]_vars

\* an update of an absent character was refused while something is stored
C5_Witness ==
    /\ result.op = "update_character"
    /\ result.status = NotFound
    /\ result.arg.id \notin DOMAIN characters
    /\ Rows(movies) + Rows(characters) > 0

\* C6: right after a delete by id that succeeded, and so with no create
\* in between, get of that id answers 404 and the same delete answers
\* 404 and changes nothing, for movies, characters and users; right after
\* delete_movie_by_name, the same delete answers 404 and changes nothing.
C6_DeleteTwice ==
    /\ (result.op = "delete_movie_by_id" /\ result.status = OK) =>
          /\ get_movie(movies, result.arg.id).status = NotFound
          /\ delete_movie_by_id(movies, result.arg.id).status = NotFound
          /\ delete_movie_by_id(movies, result.arg.id).table = movies
    /\ (result.op = "delete_character" /\ result.status = OK) =>
          /\ get_character(characters, result.arg.id).status = NotFound
          /\ delete_character(characters, result.arg.id).status = NotFound
          /\ delete_character(characters, result.arg.id).table = characters
    /\ (result.op = "remove_user_by_id" /\ result.status = OK) =>
          /\ get_user_by_id(users, result.arg.id).status = NotFound
          /\ remove_user_by_id(users, result.arg.id).status = NotFound
          /\ remove_user_by_id(users, result.arg.id).table = users
    /\ (result.op = "delete_movie_by_name" /\ result.status = OK) =>
          /\ delete_movie_by_name(movies, result.arg.name).status = NotFound
          /\ delete_movie_by_name(movies, result.arg.name).table = movies

\* one of two movies has been deleted by its id
C6_Witness ==
    /\ result.op = "delete_movie_by_id"
    /\ result.status = OK
    /\ result.arg.id \notin DOMAIN movies
    /\ Rows(movies) = 1

\* the movies of a batch at the positions in which P holds
Pick(batch, P(_)) ==
    LET at == SelectSeq([i \in 1..Len(batch) |-> i], P)
    IN [k \in DOMAIN at |-> batch[at[k]]]

\* C7: add_movies splits its input into added and not added: a movie is
\* not added exactly when its name is stored or came earlier in the
\* batch; the others are added, and stay added; the number of movies
\* grows by the number of added ones.
C7_BulkPartition ==
    [][result'.op = "add_movies" =>
        LET batch == result'.arg.body.list
            added == result'.ret.added_movies
            skipped == result'.ret.not_added_movies
            Dup(i) == \/ batch[i].name \in NamesOf(movies)
                      \/ \E j \in 1..(i - 1) : batch[j].name = batch[i].name
        IN /\ result'.status = OK
           /\ Len(added) + Len(skipped) = Len(batch)
           /\ skipped = Pick(batch, Dup)
           /\ added = Pick(batch, LAMBDA i : ~Dup(i))
           /\ Rows(movies') = Rows(movies) + Len(added)
           /\ Keeps(movies, movies')
           /\ NamesOf(movies') = NamesOf(movies) \cup {added[i].name : i \in DOMAIN added}]_vars

\* a batch of which one movie was added and one was not
C7_Witness ==
    /\ result.op = "add_movies"
    /\ Len(result.ret.added_movies) = 1
    /\ Len(result.ret.not_added_movies) = 1
    /\ result.arg.body.list[1].name \in NamesOf(movies)

(***************************************************************************)
(* Properties of the routes.                                               *)
(***************************************************************************)
\* a token that was signed with the secret and has not expired
Validates(token, utcnow) == token.key = SECRET_KEY /\ utcnow <= token.exp

\* C8: login answers 200 exactly when a user of that name is stored and
\* the password verifies against its hash; it then returns the id of that
\* user and a token that validates with the name as subject; otherwise it
\* answers 401 and hands out no token.
C8_Login ==
    [][result'.op = "POST /auth/login/" =>
        LET name == result'.arg.name
            known == {id \in DOMAIN users :
                        /\ users[id].username = name
                        /\ verify_password(result'.arg.body.password, users[id].hashedPassword)}
        IN IF known # {}
           THEN /\ result'.status = OK
                /\ result'.ret.user_id \in known
                /\ Validates(result'.ret.token, now)
                /\ decode_access_token(result'.ret.token, now).status = OK
                /\ decode_access_token(result'.ret.token, now).payload.sub = name
                /\ issued' = issued \cup {result'.ret.token}
           ELSE /\ result'.status = Unauthorized
                /\ result'.ret = Nothing
                /\ issued' = issued]_vars

\* a stored user has logged in with its password and holds the token
C8_Witness ==
    /\ result.op = "POST /auth/login/"
    /\ result.status = OK
    /\ result.ret.token \in issued
    /\ result.ret.user_id \in DOMAIN users
    /\ users[result.ret.user_id].username = result.arg.name

\* the routes that take a bearer token
TokenRoutes ==
    {"GET /movies/{id}", "POST /movies", "PUT /movies/{id}", "DELETE /movies/{id}",
     "DELETE /movies/by_name/{name}", "POST /characters", "PUT /characters/{id}",
     "DELETE /characters/{id}"}

\* C9 (as claimed): a request to a route that takes a bearer token whose
\* token does not validate is answered 401, changes no table and makes no
\* broadcast.
C9_TokenBeforeStore ==
    [][(result'.op \in TokenRoutes /\ ~Validates(result'.token, now)) =>
          /\ result'.status = Unauthorized
          /\ <<movies, characters, users>>' = <<movies, characters, users>>
          /\ ~result'.broadcast]_vars

\* a movie has been deleted, and the clients notified, by a request with
\* a forged token
C9_DeletedWithForgedToken ==
    /\ result.op = "DELETE /movies/{id}"
    /\ result.token = ForgedToken
    /\ result.status = OK
    /\ result.broadcast
    /\ result.arg.id \notin DOMAIN movies

AdminRoutes == {"GET /users/nonAdmin/", "DELETE /users/{userId}"}

\* C10: the admin routes accept a token only if it validates and its
\* subject is "admin"; with any other token they answer 401, return
\* nothing and leave the users as they are.
C10_AdminOnly ==
    [][(result'.op \in AdminRoutes
          /\ ~(Validates(result'.token, now) /\ result'.token.sub = "admin")) =>
          /\ result'.status = Unauthorized
          /\ result'.ret = Nothing
          /\ users' = users]_vars

\* a user who is not the admin, with a token that validates, was refused
\* the removal of a stored user
C10_Witness ==
    /\ result.op = "DELETE /users/{userId}"
    /\ result.status = Unauthorized
    /\ result.token \in issued
    /\ Validates(result.token, now)
    /\ result.token.sub # "admin"
    /\ result.arg.id \in DOMAIN users

\* C11: at any time, a token a client can send is given its claims by
\* decode_access_token, and passed by verify_token, only if it was signed
\* with SECRET_KEY and its expiry has not passed; a token with another
\* signature, or one whose expiry has passed, gets 401 and no claims.
C11_ValidateToken ==
    \A t \in TokenInputs :
        LET decoded == decode_access_token(t, now)
        IN /\ decoded.status = OK => Validates(t, now) /\ decoded.payload.sub = t.sub
           /\ verify_token(t, now) = OK => Validates(t, now)
           /\ (t.key # SECRET_KEY \/ t.exp < now) =>
                 /\ decoded.status = Unauthorized
                 /\ decoded.payload = Nothing
                 /\ verify_token(t, now) = Unauthorized

\* a token that login has handed out is refused after its expiry
C11_Witness ==
    \E t \in issued :
        /\ t.key = SECRET_KEY
        /\ t.exp < now
        /\ decode_access_token(t, now).status = Unauthorized
        /\ verify_token(t, now) = Unauthorized

(***************************************************************************)
(* Properties of the websockets and of the requests in flight.             *)
(***************************************************************************)
\* the step ends the notify_clients of handler k, by its return or by an
\* exception
EndsBroadcast(k) == tasks[k].pc = "sending" /\ tasks'[k].pc = "idle"

\* C12 (as claimed): a broadcast during which the registry stays as it is
\* delivers the event to every connection of the registry whose peer is
\* there, also when the push to another connection of the registry fails.
C12_DeliversPastDead ==
    [][\A k \in Tasks :
          (EndsBroadcast(k) /\ tasks[k].started = active_connections) =>
              \A ws \in Range(active_connections) :
                  ws \in alive => ws \in Range(result'.delivered)]_vars

\* a broadcast to three registered connections of which one is dead has
\* ended with an exception before it reached the two live ones
C12_AbortedBroadcast ==
    /\ result.broadcast
    /\ result.status = ServerError
    /\ result.delivered = <<>>
    /\ Len(active_connections) = 3
    /\ Cardinality(Range(active_connections) \cap alive) = 2
    /\ \A k \in Tasks : tasks[k].pc = "idle"

\* C13 (as claimed): a websocket is in the registry, once, exactly while
\* it is open: it has been accepted and has not been closed since, be it
\* by a disconnect or by a send to it that failed.
C13_RegistryTracksOpen ==
    \A ws \in Conns :
        /\ Count(active_connections, ws) <= 1
        /\ Count(active_connections, ws) = 1 <=> sockets[ws] = "CONNECTED"

\* a push to a websocket has failed, and it is still in the registry
C13_StaleAfterFailedPush ==
    \E ws \in Range(active_connections) :
        /\ sockets[ws] = "SEND_FAILED"
        /\ ws \notin alive
        /\ result.broadcast
        /\ result.status = ServerError

\* the routes that change a table
MutatingRoutes ==
    {"POST /movies", "POST /movies/bulk/", "PUT /movies/{id}", "DELETE /movies/{id}",
     "DELETE /movies/by_name/{name}", "DELETE /movies/delete_duplicates/",
     "PUT /movies/update_nr_characters/", "POST /characters", "POST /characters/bulk/",
     "PUT /characters/{id}", "DELETE /characters/{id}", "POST /auth/register/",
     "DELETE /users/{userId}"}

\* C14 (as claimed): a request to a route that changes a table, when it
\* has succeeded (for a registration: when the user was added), has made
\* one broadcast, to every connection of the registry whose peer is there.
C14_MutationBroadcasts ==
    [][(/\ result'.op \in MutatingRoutes
        /\ result'.status = OK
        /\ result'.op = "POST /auth/register/" => result'.ret = Flag(TRUE)) =>
          /\ result'.broadcast
          /\ result'.delivered = SelectSeq(active_connections, LAMBDA ws : ws \in alive)]_vars

\* a user has been registered and no broadcast was made
C14_RegisteredSilently ==
    /\ result.op = "POST /auth/register/"
    /\ result.status = OK
    /\ result.ret = Flag(TRUE)
    /\ ~result.broadcast
    /\ \E id \in DOMAIN users : users[id].username = result.arg.name

\* C15 (as claimed): a broadcast that returns has delivered the event
\* exactly once to every connection that was in the registry when it
\* started and is still open when it ends, whatever connections were
\* accepted or removed while it was suspended; none gets it twice.
C15_SnapshotBroadcast ==
    [][\A k \in Tasks :
          (EndsBroadcast(k) /\ result'.status = OK) =>
              /\ \A ws \in Range(tasks[k].started) :
                    (ws \in alive /\ sockets[ws] = "CONNECTED") =>
                        Count(result'.delivered, ws) = 1
              /\ \A ws \in Conns : Count(result'.delivered, ws) <= 1]_vars

\* the step runs the handler of the pending request k
Runs(k) == tasks[k].pc = "pending" /\ tasks'[k].pc # "pending"

\* C16 (as claimed): an update of a stored movie with a token that
\* validates succeeds, whatever other update of that movie is in flight,
\* and leaves the movie with exactly its own fields (nrCharacters and
\* editorId kept); the movies change at no other step, so that the stored
\* fields are those of the update that came last.
C16_LastWriterWins ==
    [][/\ \A k \in Tasks :
             (Runs(k) /\ Validates(tasks[k].token, now) /\ tasks[k].arg.id \in DOMAIN movies) =>
                 LET id == tasks[k].arg.id
                     new == tasks[k].arg.body
                 IN /\ result'.status = OK
                    /\ movies'[id] = [new EXCEPT !.nrCharacters = movies[id].nrCharacters,
                                                 !.editorId = movies[id].editorId]
       /\ (\A k \in Tasks : ~Runs(k)) => movies' = movies]_vars

\* an update has succeeded while another update of the same movie waits
C16_BothInFlight ==
    /\ result.op = "PUT /movies/{id}"
    /\ result.status = OK
    /\ \E k \in Tasks :
          /\ tasks[k].pc = "pending"
          /\ tasks[k].arg.id = result.arg.id
          /\ tasks[k].arg.body # result.arg.body
          /\ Validates(tasks[k].token, now)

(***************************************************************************)
(* Properties of the listings and of the recounts.                         *)
(***************************************************************************)
Min(a, b) == IF a < b THEN a ELSE b

\* got is the run of the rows of tbl, in the order of the store, that
\* starts after skip rows and has min(limit, max(0, n - skip)) rows
IsPage(got, tbl, skip, limit) ==
    LET n == Rows(tbl)
        ids == SortedIds(DOMAIN tbl)
    IN /\ Len(got) = Min(limit, IF n - skip > 0 THEN n - skip ELSE 0)
       /\ \A i \in 1..Len(got) :
             got[i].id = ids[skip + i] /\ got[i].row = tbl[ids[skip + i]]

\* C17: a listing with skip and limit returns the run of the store's order
\* that starts after skip rows and has min(limit, max(0, n - skip)) rows,
\* which is empty when skip is n or more; it is no error and changes no
\* table.
C17_ListPage ==
    [][/\ result'.op = "get_movies_skip_limit" =>
             /\ result'.status = OK
             /\ IsPage(result'.ret.list, movies, result'.arg.body.skip, result'.arg.body.limit)
             /\ <<movies, characters, users>>' = <<movies, characters, users>>
       /\ result'.op = "get_characters_skip_limit" =>
             /\ result'.status = OK
             /\ IsPage(result'.ret.list, characters, result'.arg.body.skip,
                       result'.arg.body.limit)
             /\ <<movies, characters, users>>' = <<movies, characters, users>>]_vars

\* a listing of two movies from the second on has returned the second, and
\* not the first
C17_Witness ==
    /\ result.op = "get_movies_skip_limit"
    /\ Rows(movies) = 2
    /\ result.arg.body.skip = 1
    /\ result.arg.body.limit >= 1
    /\ Len(result.ret.list) = 1
    /\ result.ret.list[1].id = Max(DOMAIN movies)

\* the movies of tbl that have the name
Named(tbl, name) == {id \in DOMAIN tbl : tbl[id].name = name}

\* C18: delete_duplicates leaves exactly one movie of every name that was
\* stored, one of those that were stored; a movie whose name was stored
\* once stays as it is; the returned list is the deleted movies, each once.
C18_DeleteDuplicates ==
    [][result'.op = "delete_duplicates" =>
        LET deleted == result'.ret.list
        IN /\ result'.status = OK
           /\ \A name \in NamesOf(movies) : Cardinality(Named(movies', name)) = 1
           /\ \A id \in DOMAIN movies' : id \in DOMAIN movies /\ movies'[id] = movies[id]
           /\ \A id \in DOMAIN movies :
                 Cardinality(Named(movies, movies[id].name)) = 1 => id \in DOMAIN movies'
           /\ {deleted[i].id : i \in DOMAIN deleted} = DOMAIN movies \ DOMAIN movies'
           /\ Len(deleted) = Cardinality(DOMAIN movies \ DOMAIN movies')
           /\ \A i \in DOMAIN deleted : deleted[i].row = movies[deleted[i].id]]_vars

\* of three movies of one name, two have been deleted
C18_Witness ==
    /\ result.op = "delete_duplicates"
    /\ Len(result.ret.list) = 2
    /\ Rows(movies) = 1
    /\ \A i \in DOMAIN result.ret.list :
          result.ret.list[i].row.name \in NamesOf(movies)

\* the movies a listing of at most limit movies holds
Listed(tbl, limit) ==
    LET all == Scan(tbl) IN {all[i].id : i \in 1..Min(limit, Len(all))}

C20_RecountUsers ==
    [][result'.op = "get_non_admin_users" =>
        LET got == result'.ret.list
            others == {id \in DOMAIN users' : users'[id].username # "admin"}
        IN /\ result'.status = OK
           /\ DOMAIN users' = DOMAIN users
           /\ \A id \in DOMAIN users :
                 /\ users'[id].nrMovies =
                       Cardinality({m \in DOMAIN movies : movies[m].editorId = id})
                 /\ users'[id].nrCharacters =
                       Cardinality({c \in DOMAIN characters : characters[c].editorId = id})
                 /\ users'[id].username = users[id].username
                 /\ users'[id].hashedPassword = users[id].hashedPassword
           /\ {got[i].id : i \in DOMAIN got} = others
           /\ Len(got) = Cardinality(others)
           /\ \A i \in DOMAIN got : got[i].row = users'[got[i].id]
           /\ movies' = movies
           /\ characters' = characters]_vars

\* "admin" and another user are stored; the list holds the other user,
\* with one movie and no character
C20_Witness ==
    /\ result.op = "get_non_admin_users"
    /\ \E id \in DOMAIN users : users[id].username = "admin"
    /\ Len(result.ret.list) = 1
    /\ result.ret.list[1].row.username = "bob"
    /\ result.ret.list[1].row.nrMovies = 1
    /\ result.ret.list[1].row.nrCharacters = 0

(***************************************************************************)
(* Properties of the stored aggregates and of the users.                   *)
(***************************************************************************)
\* the calls of the repository that write movies or characters and are not
\* a recount
StoreOps ==
    {"add_character", "add_characters", "update_character", "delete_character",
     "update_movie", "delete_movie_by_id", "delete_movie_by_name"}

\* the number of characters stored for the movie
ActualCharacters(id) ==
    Cardinality({c \in DOMAIN characters : characters[c].movieName = movies[id].name})

\* C21: add_character, add_characters, update_character, delete_character,
\* update_movie and the deletes of a movie leave nrCharacters of every
\* movie that remains, and nrMovies and nrCharacters of every user, as they
\* were.
C21_AggregatesKept ==
    [][result'.op \in StoreOps =>
        /\ \A id \in DOMAIN movies' :
              /\ id \in DOMAIN movies
              /\ movies'[id].nrCharacters = movies[id].nrCharacters
        /\ DOMAIN users' = DOMAIN users
        /\ \A id \in DOMAIN users :
              /\ users'[id].nrMovies = users[id].nrMovies
              /\ users'[id].nrCharacters = users[id].nrCharacters]_vars

\* the one character of a movie has been deleted, and the movie still
\* says it has one: a recount had counted it
C21_Witness ==
    /\ result.op = "delete_character"
    /\ result.status = OK
    /\ \E id \in DOMAIN movies :
          /\ movies[id].nrCharacters = 1
          /\ ActualCharacters(id) = 0

\* the users of the table that have the username
WithUsername(tbl, username) == {id \in DOMAIN tbl : tbl[id].username = username}

\* C22: register returns False and leaves the users as they are when the
\* username is stored already; otherwise it returns True and stores one
\* more user, of that username; no two stored users ever share a username.
C22_Register ==
    /\ [](\A i, j \in DOMAIN users : users[i].username = users[j].username => i = j)
    /\ [][result'.op = "register" =>
            LET username == result'.arg.name
                added == DOMAIN users' \ DOMAIN users
            IN IF WithUsername(users, username) # {}
               THEN /\ result'.ret = Flag(FALSE)
                    /\ users' = users
               ELSE /\ result'.ret = Flag(TRUE)
                    /\ Cardinality(added) = 1
                    /\ \A id \in added : users'[id].username = username
                    /\ \A id \in DOMAIN users : id \in DOMAIN users' /\ users'[id] = users[id]]_vars

\* with "admin" and "bob" stored, a registration has been turned down
C22_Witness ==
    /\ result.op = "register"
    /\ result.ret = Flag(FALSE)
    /\ Rows(users) = 2
    /\ WithUsername(users, result.arg.name) # {}

(***************************************************************************)
(* Properties of a broadcast that fails after the commit.                  *)
(***************************************************************************)
Updated == "Aggregated column updated successfully"
Failed == "Failed to update the aggregated column"

\* C23: PUT /movies/update_nr_characters/ answers 200 with a message; the
\* message says the update succeeded exactly when the recounted counts
\* were persisted, and that it failed exactly when they were not.
C23_MessageTellsOutcome ==
    [][result' # result /\ result'.op = "PUT /movies/update_nr_characters/" =>
        /\ result'.status = OK
        /\ result'.ret.message \in {Updated, Failed}
        /\ result'.ret.message = Updated =>
              movies' = update_aggregated_column_movies(movies, characters)
        /\ result'.ret.message = Failed => movies' = movies]_vars

\* the answer says the update failed, and the movie that was stored with
\* the count 2 carries the recounted 0
C23_FailedButPersisted ==
    /\ result.op = "PUT /movies/update_nr_characters/"
    /\ result.ret.message = Failed
    /\ characters = EmptyTable
    /\ \E id \in DOMAIN movies : movies[id].editorId = 1 /\ movies[id].nrCharacters = 0

\* C29: when the broadcast of POST /movies or of DELETE /movies/{id} raises,
\* the request ends in an error and the movie is stored, or deleted, all
\* the same; the same create sent again is answered Conflict and the same
\* delete NotFound.
C29_NotRolledBack ==
    [][result' # result =>
        /\ result'.op = "POST /movies" /\ result'.status = ServerError =>
              \E id \in DOMAIN movies' \ DOMAIN movies :
                  movies'[id] = MovieRow(result'.arg.body)
        /\ result'.op = "DELETE /movies/{id}" /\ result'.status = ServerError =>
              result'.arg.id \in DOMAIN movies \ DOMAIN movies'
        /\ /\ result.op = "POST /movies" /\ result.status = ServerError
           /\ result'.op = "POST /movies" /\ result'.arg = result.arg
           /\ result'.token = result.token
           => result'.status = Conflict /\ movies' = movies
        /\ /\ result.op = "DELETE /movies/{id}" /\ result.status = ServerError
           /\ result'.op = "DELETE /movies/{id}" /\ result'.arg = result.arg
           /\ result'.token = result.token
           => result'.status = NotFound /\ movies' = movies]_vars

\* a create has ended in the error of the broadcast, with the movie stored
C29_Witness ==
    /\ result.op = "POST /movies"
    /\ result.status = ServerError
    /\ result.broadcast
    /\ \E id \in DOMAIN movies : movies[id] = MovieRow(result.arg.body)
    /\ Range(active_connections) \ alive # {}

(***************************************************************************)
(* Properties of the generated movies.                                     *)
(***************************************************************************)
\* C25: on a store that is not empty, generate_and_add_movies(db, count)
\* returns, with count movies added whose names differ from each other and
\* from every name stored before.
C25_GeneratesCount ==
    [][result' # result /\ result'.op = "generate_and_add_movies" /\ movies # EmptyTable =>
        /\ result'.status = OK
        /\ LET added == result'.ret.list
               new == DOMAIN movies' \ DOMAIN movies
           IN /\ Len(added) = result'.arg.body.count
              /\ Cardinality(new) = result'.arg.body.count
              /\ \A i, j \in DOMAIN added : added[i].name = added[j].name => i = j
              /\ \A i \in DOMAIN added : added[i].name \notin NamesOf(movies)
              /\ {movies'[id].name : id \in new} = {added[i].name : i \in DOMAIN added}
              /\ \A id \in DOMAIN movies : id \in DOMAIN movies' /\ movies'[id] = movies[id]]_vars

\* a call for two movies on a store of one movie has not returned: the one
\* candidate was used for the first movie
C25_NeverReturns ==
    /\ result.op = "generate_and_add_movies"
    /\ result.status = Diverges
    /\ result.arg.body.count = 2
    /\ NamesOf(movies) = {"Matrix", "Matrix 2"}

\* C24: after POST /movies/generate/{number} the task fires RepeatCount
\* times, each time adding number movies and broadcasting, and stops: once
\* no call of it is left to run, generation_count, which counts the
\* firings since the request, is RepeatCount.
C24_FiresRepeatCount ==
    result.op = "POST /movies/generate/{number}" /\ scheduled = {} =>
        generation_count = RepeatCount

\* the task has fired once, adding one movie, its timer has fired, and
\* nothing is left to run
C24_StoppedAfterOne ==
    /\ result.op = "POST /movies/generate/{number}"
    /\ result.arg.body.number = 1
    /\ scheduled = {}
    /\ generation_count = 1
    /\ NamesOf(movies) = {"Matrix", "Matrix 2"}

(***************************************************************************)
(* Properties of the bulk deletes.                                         *)
(***************************************************************************)
\* the bulk delete of the ids start_id..end_id that the answer describes
IsBulkDelete(before, after, answer) ==
    LET ids == answer.arg.body.start_id .. answer.arg.body.end_id
        deleted == Range(answer.ret.deleted)
        not_found == Range(answer.ret.not_found)
    IN /\ answer.status = OK
       /\ deleted \cup not_found = ids
       /\ deleted \cap not_found = {}
       /\ Len(answer.ret.deleted) = Cardinality(deleted)
       /\ Len(answer.ret.not_found) = Cardinality(not_found)
       /\ deleted = ids \cap DOMAIN before
       /\ after = [id \in DOMAIN before \ ids |-> before[id]]

\* C26: the bulk deletes by id range delete the ids from start_id to
\* end_id, both included: each of them is reported once, as deleted when
\* it was stored and is removed, as not found when it was not stored, and
\* nothing outside the range is removed.
C26_BulkDeleteInclusive ==
    [][result' # result =>
        /\ result'.op = "DELETE /movies/bulk/{start_id}/{end_id}" =>
              IsBulkDelete(movies, movies', result')
        /\ result'.op = "DELETE /characters/bulk/{start_id}/{end_id}" =>
              IsBulkDelete(characters, characters', result')]_vars

\* a bulk delete of the movies 1 to 2 has left movie 2 stored and out of
\* both lists
C26_LastIdKept ==
    /\ result.op = "DELETE /movies/bulk/{start_id}/{end_id}"
    /\ result.arg.body.start_id = 1
    /\ result.arg.body.end_id = 2
    /\ result.ret.deleted = <<1>>
    /\ result.ret.not_found = <<>>
    /\ 2 \in DOMAIN movies

(***************************************************************************)
(* Properties of the tokens.                                               *)
(***************************************************************************)
\* C27: create_access_token(data, expires_delta) encodes the claims and
\* the expiry: the time of the call plus expires_delta whenever one is
\* given, a duration of zero included, and plus 15 minutes only when none
\* is given.
C27_ExpiryFromDelta ==
    [][result' # result /\ result'.op = "create_access_token" =>
        /\ result'.ret.sub = result'.arg.name
        /\ result'.ret.key = SECRET_KEY
        /\ result'.ret.exp =
              now + (IF result'.arg.body.provided
                     THEN result'.arg.body.minutes
                     ELSE DefaultExpireMinutes)]_vars

\* a token asked for at the start with a duration of zero expires after 15
\* minutes
C27_ZeroGetsDefault ==
    /\ result.op = "create_access_token"
    /\ result.arg.body.provided
    /\ result.arg.body.minutes = 0
    /\ now = 0
    /\ result.ret.exp = DefaultExpireMinutes

(***************************************************************************)
(* Properties of creates in flight together.                               *)
(***************************************************************************)
\* the rows of a table with the name
RowsNamed(tbl, name) == {id \in DOMAIN tbl : tbl[id].name = name}

\* the handler of request k runs in this step
Handles(k, op) ==
    /\ tasks[k].pc = "pending"
    /\ tasks[k].op = op
    /\ tasks'[k].pc # "pending"

\* C28: the lookup by name and the insert of a create are one step with
\* respect to the other requests: no two stored movies ever share a name;
\* a create whose name is stored, by a request that is still in its
\* broadcast or by an earlier one, is answered 400 and stores nothing, a
\* create whose name is not stored adds exactly one row with it; a bulk
\* create leaves exactly one row for each of its names and skips the others.
C28_CreateIsAtomic ==
    /\ [](UniqueNames(movies))
    /\ [][\A k \in Tasks :
            /\ Handles(k, "POST /movies") /\ Verified(tasks[k].token) = OK =>
                  LET name == tasks[k].arg.body.name
                  IN IF RowsNamed(movies, name) # {}
                     THEN /\ movies' = movies
                          /\ result'.op = "POST /movies"
                          /\ result'.status = Conflict
                     ELSE /\ Cardinality(RowsNamed(movies', name)) = 1
                          /\ Cardinality(DOMAIN movies') = Cardinality(DOMAIN movies) + 1
                          /\ \A id \in DOMAIN movies : movies'[id] = movies[id]
            /\ Handles(k, "POST /movies/bulk/") =>
                  LET batch == tasks[k].arg.body.list
                      names == {batch[i].name : i \in DOMAIN batch}
                  IN /\ \A name \in names : Cardinality(RowsNamed(movies', name)) = 1
                     /\ \A id \in DOMAIN movies : movies'[id] = movies[id]
                     /\ \A id \in DOMAIN movies' \ DOMAIN movies :
                           /\ movies'[id].name \in names
                           /\ RowsNamed(movies, movies'[id].name) = {}]_vars

\* a create is answered 400 while the create that stored the name is still
\* in its broadcast
C28_Witness ==
    /\ result.op = "POST /movies"
    /\ result.status = Conflict
    /\ \E k \in Tasks :
          /\ tasks[k].pc = "sending"
          /\ tasks[k].op = "POST /movies"
          /\ tasks[k].arg.body.name = result.arg.body.name

(***************************************************************************)
(* Properties of tokens whose user has been removed.                       *)
(***************************************************************************)
\* the stored users with the username
StoredAs(username) == {id \in DOMAIN users : users[id].username = username}

\* C30: the validation of a token reads the token and the clock, never the
\* users: a token that was handed out and has not expired passes
\* verify_token, and verify_admin_token if its subject is "admin", whether
\* or not its user is still stored; an admin route called with it is not
\* answered 401 after remove_user_by_id has removed that user.
C30_ValidWithoutUser ==
    /\ [](\A t \in issued :
            ~(t.exp < now) =>
                /\ verify_token(t, now) = OK
                /\ t.sub = "admin" => verify_admin_token(t, now) = OK)
    /\ [][(/\ result' # result
           /\ result'.op \in AdminRoutes
           /\ result'.token \in issued
           /\ ~(result'.token.exp < now)
           /\ result'.token.sub = "admin") =>
             result'.status # Unauthorized]_vars

\* the users were listed for the token of the admin after the admin had
\* been removed
C30_Witness ==
    /\ result.op = "GET /users/nonAdmin/"
    /\ result.status = OK
    /\ result.token \in issued
    /\ result.token.sub = "admin"
    /\ StoredAs("admin") = {}

=============================================================================
